---- MODULE Spec2Model ----
(***************************************************************************)
(* NeuralSim: the four timer-driven simulations (BNN, brain functions, ML  *)
(* algorithms, ANN) as one state machine.  Each simulation is a page of    *)
(* the application; one page is mounted at a time (variable page).  Every  *)
(* action is one event handler or timer callback together with the state   *)
(* updates and effects React runs before the next event is handled.        *)
(*                                                                         *)
(* Real numbers are fixed point: simulated time of the BNN in slider steps *)
(* of 0.1, membrane potentials in 1/PotScale mV.                           *)
(***************************************************************************)
EXTENDS Integers, Sequences, FiniteSets, Bags, TLC

VARIABLES page, bnn, bnnTimer, brain, brainTimers, ml, mlTimer, ann, annTimer

vars == <<page, bnn, bnnTimer, brain, brainTimers, ml, mlTimer, ann, annTimer>>

Pages == {"bnn", "brain", "ml", "ann"}

TruncDiv(a, b) == IF a >= 0 THEN a \div b ELSE -((-a) \div b)

(***************************************************************************)
(* BNN simulation                                                          *)
(***************************************************************************)

\* bounds of the model
PotScale == 1
MaxTime == 600
MaxTimeQuiet == 1100
MaxKicks == 1
MaxTimeLong == 2300
MaxKicksLong == 2
MaxTimeFair == 1800
MaxKicksFair == 1

\* the neurons whose random draws vary; every other neuron draws the centre of
\* the noise range and no stimulation kick
NoisyIds == {0}

\* program constants
TimeScale == 10
NumNeurons == 12
NumTerminals == 2
RestingPotential == -70
Threshold == -55
Peak == 40
StimKick == 20
Refractory == 50
APDuration == 100
SynCooldown == 30
SynActive == 20

NeuronIds == 0..(NumNeurons - 1)

\* simulationSpeed slider: 1x (the default) and 3x (the maximum), in steps of 0.1
Speeds == {TimeScale, 3 * TimeScale}
\* stimulationIntensity slider: 0 and the default 50
Intensities == {0, 50}
\* (Math.random() - 0.5) * 2 lies in [-1, 1): its extremes and its centre
Noise == {-PotScale, 0, PotScale}

NewNeuron(i) ==
  [ id |-> i,
    restingPotential |-> RestingPotential * PotScale,
    currentPotential |-> RestingPotential * PotScale,
    threshold |-> Threshold * PotScale,
    isActive |-> FALSE,
    lastSpikeTime |-> 0,
    terminals |-> [t \in 0..(NumTerminals - 1) |-> (i + 1 + t) % NumNeurons] ]

NewSynapse(i, t) ==
  [ preNeuronId |-> i,
    postNeuronId |-> (i + 1 + t) % NumNeurons,
    isActive |-> FALSE,
    lastActivation |-> 0 ]

\* the synapses in creation order: neuron by neuron, terminal by terminal
NewSynapses ==
  [k \in 1..(NumNeurons * NumTerminals) |->
     NewSynapse((k - 1) \div NumTerminals, (k - 1) % NumTerminals)]

\* what initializeNetwork sets
initializeNetwork(b) ==
  [b EXCEPT !.neurons = [i \in NeuronIds |-> NewNeuron(i)],
            !.synapses = NewSynapses,
            !.actionPotentials = <<>>,
            !.currentTime = 0]

BNNInit ==
  initializeNetwork(
    [ isRunning |-> FALSE,
      simulationSpeed |-> TimeScale,
      stimulationIntensity |-> 50,
      neurons |-> <<>>,
      synapses |-> <<>>,
      actionPotentials |-> <<>>,
      currentTime |-> 0,
      kicks |-> 0 ])

\* NewPotential without the relaxation toward rest
NewPotentialNoDecay(n, noise, kick) ==
  IF kick THEN n.currentPotential + noise + StimKick * PotScale
  ELSE n.currentPotential + noise

\* the potential after decay, background noise and the stimulation kick
NewPotential(n, noise, kick) ==
  LET decayed == n.currentPotential
                   + TruncDiv(n.restingPotential - n.currentPotential, 10)
      noisy == decayed + noise
  IN  IF kick THEN noisy + StimKick * PotScale ELSE noisy

\* Fires reading the potential the neuron had before this tick's update
FiresOnStored(n, newPotential, now) ==
  n.currentPotential > n.threshold /\ now - n.lastSpikeTime > Refractory * TimeScale

\* Fires without the refractory condition
FiresNoRefractory(n, newPotential, now) == newPotential > n.threshold

\* the firing check of the simulation loop
Fires(n, newPotential, now) ==
  newPotential > n.threshold /\ now - n.lastSpikeTime > Refractory * TimeScale

UpdateNeuron(n, noise, kick, now) ==
  LET p == NewPotential(n, noise, kick)
  IN  IF Fires(n, p, now)
      THEN [n EXCEPT !.currentPotential = Peak * PotScale,
                     !.isActive = TRUE,
                     !.lastSpikeTime = now]
      ELSE [n EXCEPT !.currentPotential = p, !.isActive = FALSE]

\* position of an action potential, in thousandths
APPosition(ap, now) == ((now - ap.startTime) * 1000) \div (APDuration * TimeScale)

\* NewAP stamped with the time of the neuron's previous firing
NewAPStale(i, now) == [neuronId |-> i, startTime |-> bnn.neurons[i].lastSpikeTime, position |-> 0]

\* the action potential a firing neuron appends
NewAP(i, now) == [neuronId |-> i, startTime |-> now, position |-> 0]

\* the action potentials the firing neurons append, in neuron order
RECURSIVE FiredAPs(_, _, _)
FiredAPs(i, fired, now) ==
  IF i >= NumNeurons THEN <<>>
  ELSE (IF i \in fired THEN <<NewAP(i, now)>> ELSE <<>>) \o FiredAPs(i + 1, fired, now)

\* a filter that never removes an action potential
StillTravellingAlways(ap) == TRUE

StillTravelling(ap) == ap.position < 1000

UpdateAPs(aps, now) ==
  SelectSeq([k \in 1..Len(aps) |-> [aps[k] EXCEPT !.position = APPosition(aps[k], now)]],
            StillTravelling)

\* UpdateSynapse with a cooldown of 90 time units
UpdateSynapseLongCooldown(s, aps, now) ==
  IF \E k \in 1..Len(aps) :
        /\ aps[k].neuronId = s.preNeuronId
        /\ aps[k].position > 800
        /\ now - s.lastActivation > 3 * SynCooldown * TimeScale
  THEN [s EXCEPT !.isActive = TRUE, !.lastActivation = now]
  ELSE [s EXCEPT !.isActive = (now - s.lastActivation < SynActive * TimeScale)]

\* UpdateSynapse without the cooldown condition
UpdateSynapseNoCooldown(s, aps, now) ==
  IF \E k \in 1..Len(aps) : aps[k].neuronId = s.preNeuronId /\ aps[k].position > 800
  THEN [s EXCEPT !.isActive = TRUE, !.lastActivation = now]
  ELSE [s EXCEPT !.isActive = (now - s.lastActivation < SynActive * TimeScale)]

UpdateSynapse(s, aps, now) ==
  IF \E k \in 1..Len(aps) :
        /\ aps[k].neuronId = s.preNeuronId
        /\ aps[k].position > 800
        /\ now - s.lastActivation > SynCooldown * TimeScale
  THEN [s EXCEPT !.isActive = TRUE, !.lastActivation = now]
  ELSE [s EXCEPT !.isActive = (now - s.lastActivation < SynActive * TimeScale)]

\* the random draws of one tick
NoiseOf(nz, i) == IF i \in NoisyIds THEN nz[i] ELSE 0
KickOf(kk, i) == IF i \in NoisyIds THEN kk[i] ELSE FALSE

BNNStep(b, nz, kk) ==
  LET now == b.currentTime
      aps == b.actionPotentials
      newNeurons == [i \in NeuronIds |->
                       UpdateNeuron(b.neurons[i], NoiseOf(nz, i), KickOf(kk, i), now)]
      fired == {i \in NeuronIds : newNeurons[i].isActive}
  IN  [b EXCEPT !.currentTime = now + b.simulationSpeed,
                !.neurons = newNeurons,
                !.actionPotentials = UpdateAPs(aps, now) \o FiredAPs(0, fired, now),
                !.synapses = [k \in 1..Len(b.synapses) |->
                                UpdateSynapse(b.synapses[k], aps, now)],
                !.kicks = b.kicks + Cardinality({i \in NoisyIds : kk[i]})]

\* the simulation-loop effect: its cleanup clears the interval it created,
\* then it creates one iff isRunning
BNNLoopEffect(timer, b) == (IF timer > 0 THEN timer - 1 ELSE 0) + (IF b.isRunning THEN 1 ELSE 0)

\* the interval callback (every 50 ms while an interval is live), with the
\* background noise of the neurons in NoisyIds drawn from noiseSet
BNNTickBounded(noiseSet, maxTime, maxKicks) ==
  /\ page = "bnn"
  /\ bnnTimer > 0
  /\ bnn.currentTime < maxTime
  /\ \E nz \in [NoisyIds -> noiseSet],
        kk \in [NoisyIds -> BOOLEAN] :
       /\ \A i \in NoisyIds : kk[i] => bnn.stimulationIntensity > 0
       /\ bnn.kicks + Cardinality({i \in NoisyIds : kk[i]}) <= maxKicks
       /\ bnn' = BNNStep(bnn, nz, kk)
  /\ bnnTimer' = BNNLoopEffect(bnnTimer, bnn')
  /\ UNCHANGED <<page, brain, brainTimers, ml, mlTimer, ann, annTimer>>

BNNTickWith(noiseSet, maxTime) == BNNTickBounded(noiseSet, maxTime, MaxKicks)

BNNTick == BNNTickWith(Noise, MaxTime)

\* the same callback over a run long enough for action potentials to arrive,
\* every noise draw at its centre
BNNTickLong == BNNTickBounded({0}, MaxTimeLong, MaxKicksLong)

\* the same callback over a run long enough for one action potential to arrive
BNNTickFair == BNNTickBounded({0}, MaxTimeFair, MaxKicksFair)

\* the same callback over a longer run, every noise draw at its centre
BNNTickQuiet == BNNTickWith({0}, MaxTimeQuiet)

BNNToggle ==
  /\ page = "bnn"
  /\ bnn' = [bnn EXCEPT !.isRunning = ~bnn.isRunning]
  /\ bnnTimer' = BNNLoopEffect(bnnTimer, bnn')
  /\ UNCHANGED <<page, brain, brainTimers, ml, mlTimer, ann, annTimer>>

\* what resetSimulation sets
BNNResetState(b) == [initializeNetwork(b) EXCEPT !.isRunning = FALSE, !.kicks = 0]

BNNReset ==
  /\ page = "bnn"
  /\ bnn' = BNNResetState(bnn)
  /\ bnnTimer' = BNNLoopEffect(bnnTimer, bnn')
  /\ UNCHANGED <<page, brain, brainTimers, ml, mlTimer, ann, annTimer>>

BNNSetSpeed ==
  /\ page = "bnn"
  /\ \E v \in Speeds \ {bnn.simulationSpeed} :
       bnn' = [bnn EXCEPT !.simulationSpeed = v]
  /\ bnnTimer' = BNNLoopEffect(bnnTimer, bnn')
  /\ UNCHANGED <<page, brain, brainTimers, ml, mlTimer, ann, annTimer>>

BNNSetIntensity ==
  /\ page = "bnn"
  /\ \E v \in Intensities \ {bnn.stimulationIntensity} :
       bnn' = [bnn EXCEPT !.stimulationIntensity = v]
  /\ bnnTimer' = BNNLoopEffect(bnnTimer, bnn')
  /\ UNCHANGED <<page, brain, brainTimers, ml, mlTimer, ann, annTimer>>

NextBNN == BNNTick \/ BNNToggle \/ BNNReset \/ BNNSetSpeed \/ BNNSetIntensity

NextBNNQuiet == BNNTickQuiet \/ BNNToggle \/ BNNReset \/ BNNSetSpeed \/ BNNSetIntensity

(***************************************************************************)
(* Brain functions                                                         *)
(* Activities, intensities and amplitudes are in thousandths, spike        *)
(* progress in ten-thousandths, processingSpeed in slider steps of 0.1.    *)
(***************************************************************************)

\* bounds of the model
MaxBrainTime == 160
MaxStimuli == 1
MaxSpikes == 3
MaxTimeouts == 3
\* select and slider changes in one run
MaxInputs == 1
FramesPerTick == 1
SignalFrames == 6
MaxAgingTime == 5200

\* program constants
Baseline == 20
DecayStep == 60
CognitiveBoost == 420
AudioDelay == 60
MotorDelay == 120
CognitivePeriod == 1000
CognitiveWindow == 50
MaxAge == 5000

RegionIds == {"v1", "v2", "v4", "a1", "a2", "wernicke",
              "m1", "premotor", "cerebellum", "pfc", "hippocampus", "acc"}

Functions == {"visual", "auditory", "motor", "cognitive"}
\* processingSpeed slider: 1x (the default) and 3x (the maximum)
ProcSpeeds == {10, 30}
\* stimulusIntensity slider: 0 and the default 50
StimIntensities == {0, 50}

VisualTypes == {"edge", "pattern", "object", "motion"}
\* 0.5 + Math.random() * 0.5
VisualIntensities == {500, 1000}
\* 200 + Math.random() * 2000
Frequencies == {500, 1500}
\* 0.3 + Math.random() * 0.7
Amplitudes == {300, 1000}
\* 0.4 + Math.random() * 0.6
MotorIntensities == {400, 1000}
TaskTypes == {"memory", "attention", "decision"}
\* 0.7 + Math.random() * 0.3
Accuracies == {700}
\* 0.006 + Math.random() * 0.006
SpikeSpeeds == {119}

NoTask == [type |-> "none", accuracy |-> 0]

Min(a, b) == IF a <= b THEN a ELSE b
Max(a, b) == IF a >= b THEN a ELSE b

\* what initializeBrainRegions sets
initializeBrainRegions == [r \in RegionIds |-> 0]

NoStats == [visualProcessed |-> 0, audioProcessed |-> 0, motorExecuted |-> 0,
            cognitiveAccuracy |-> 0]

BrainInit ==
  [ isRunning |-> FALSE,
    selectedFunction |-> "visual",
    processingSpeed |-> 10,
    stimulusIntensity |-> 50,
    brainRegions |-> initializeBrainRegions,
    visualStimuli |-> <<>>,
    audioStimuli |-> <<>>,
    motorCommands |-> <<>>,
    cognitiveTask |-> NoTask,
    currentTime |-> 0,
    processingStats |-> NoStats,
    spikes |-> <<>>,
    inputs |-> 0 ]

\* no interval, no animation-frame request, no pending timeout; own counts the
\* pending timeouts that were scheduled while the task now set was processed
NoBrainTimers ==
  [interval |-> 0, raf |-> 0, timeouts |-> 0, stale |-> 0, frames |-> 0, own |-> 0]

\* Boost without the clamp at 1
BoostNoClamp(activity, amount) == activity + amount

\* Math.min(1, r.activity + amount)
Boost(activity, amount) == Min(1000, activity + amount)

\* the fraction pct / 100 of an intensity or amplitude
Scaled(x, pct) == (x * pct) \div 100

NewSpike(from, to, speed) == [from |-> from, to |-> to, t |-> 0, speed |-> speed]

\* one unprocessed visual stimulus on the regions
VisualBoost(regions, s) ==
  [r \in RegionIds |->
     IF r = "v1" /\ s.type = "edge" THEN Boost(regions[r], Scaled(s.intensity, 35))
     ELSE IF r = "v2" /\ s.type = "pattern" THEN Boost(regions[r], Scaled(s.intensity, 30))
     ELSE IF r = "v4" /\ s.type = "object" THEN Boost(regions[r], Scaled(s.intensity, 30))
     ELSE regions[r]]

VisualSpikes(s, speed) ==
  IF s.type = "edge" THEN <<NewSpike("v1", "v2", speed)>>
  ELSE IF s.type = "pattern" THEN <<NewSpike("v2", "v4", speed)>>
  ELSE IF s.type = "object" THEN <<NewSpike("v4", "pfc", speed)>>
  ELSE <<>>

AudioBoost(regions, s) ==
  [r \in RegionIds |->
     IF r = "a1" THEN Boost(regions[r], Scaled(s.amplitude, 40))
     ELSE IF r = "a2" /\ s.frequency > 1000 THEN Boost(regions[r], Scaled(s.amplitude, 28))
     ELSE IF r = "wernicke" THEN Boost(regions[r], Scaled(s.amplitude, 20))
     ELSE regions[r]]

AudioSpikes(s, speed) ==
  <<NewSpike("a1", "a2", speed)>>
    \o (IF s.frequency > 1000 THEN <<NewSpike("a2", "wernicke", speed)>> ELSE <<>>)

MotorBoost(regions, m) ==
  [r \in RegionIds |->
     IF r = "premotor" THEN Boost(regions[r], Scaled(m.intensity, 35))
     ELSE IF r = "m1" THEN Boost(regions[r], Scaled(m.intensity, 45))
     ELSE IF r = "cerebellum" THEN Boost(regions[r], Scaled(m.intensity, 30))
     ELSE regions[r]]

MotorSpikes(m, speed) ==
  <<NewSpike("premotor", "m1", speed), NewSpike("m1", "cerebellum", speed)>>

CognitiveRegion(task) ==
  IF task.type = "decision" THEN "pfc"
  ELSE IF task.type = "memory" THEN "hippocampus"
  ELSE "acc"

CognitiveBoostOf(regions, task) ==
  [r \in RegionIds |->
     IF r = CognitiveRegion(task) THEN Boost(regions[r], CognitiveBoost) ELSE regions[r]]

CognitiveSpikes(task, speed) ==
  IF task.type = "decision" THEN <<NewSpike("pfc", "acc", speed)>>
  ELSE IF task.type = "memory" THEN <<NewSpike("hippocampus", "pfc", speed)>>
  ELSE <<NewSpike("acc", "pfc", speed)>>

\* Math.max(r.baseline ?? 0, r.activity - 0.06)
Decay(regions) == [r \in RegionIds |-> Max(Baseline, regions[r] - DecayStep)]

VisualDue(s, now) == ~s.processed
AudioDue(s, now) == ~s.processed /\ now - s.startTime > AudioDelay
MotorDue(m, now) == ~m.executed /\ now - m.startTime > MotorDelay
CognitiveDue(task, now) == task # NoTask /\ now % CognitivePeriod < CognitiveWindow

\* the stimuli of a list that a tick at time now processes, in list order
DueVisual(list, now) == LET D(s) == VisualDue(s, now) IN SelectSeq(list, D)
DueAudio(list, now) == LET D(s) == AudioDue(s, now) IN SelectSeq(list, D)
DueMotor(list, now) == LET D(m) == MotorDue(m, now) IN SelectSeq(list, D)

BoostOne(regions, s, kind) ==
  IF kind = "visual" THEN VisualBoost(regions, s)
  ELSE IF kind = "auditory" THEN AudioBoost(regions, s)
  ELSE MotorBoost(regions, s)

SpikesOne(s, kind, speed) ==
  IF kind = "visual" THEN VisualSpikes(s, speed)
  ELSE IF kind = "auditory" THEN AudioSpikes(s, speed)
  ELSE MotorSpikes(s, speed)

\* the region updates of the processed stimuli, one after the other
RECURSIVE ApplyBoosts(_, _, _)
ApplyBoosts(regions, due, kind) ==
  IF due = <<>> THEN regions
  ELSE ApplyBoosts(BoostOne(regions, Head(due), kind), Tail(due), kind)

\* the spikes pushed for the processed stimuli
RECURSIVE SpikesOf(_, _, _)
SpikesOf(due, kind, speed) ==
  IF due = <<>> THEN <<>>
  ELSE SpikesOne(Head(due), kind, speed) \o SpikesOf(Tail(due), kind, speed)

\* a cleanup that removes the stimuli older than MotorDelay
CleanupEarly(list, now) ==
  LET Young(s) == now - s.startTime < MotorDelay IN SelectSeq(list, Young)

\* the cleanup effect on a list, at the new currentTime
Cleanup(list, now) ==
  LET Young(s) == now - s.startTime < MaxAge IN SelectSeq(list, Young)

\* Math.max(1, processingSpeed * 10)
TimeStep(speed) == Max(1, speed)

\* generateStimulus followed by processStimuli and the cleanup effect; spawn is
\* the stimulus generateStimulus appends (<<>> for none), task the cognitive
\* task it sets (NoTask for none), speed the speed drawn for the new spikes,
\* deferred tells whether the boosts nested in the stimulus updaters are
\* applied after the decay queued by processStimuli or before it
BrainStep(b, spawn, task, speed, deferred) ==
  LET now == b.currentTime
      vs == IF b.selectedFunction = "visual" THEN b.visualStimuli \o spawn ELSE b.visualStimuli
      as == IF b.selectedFunction = "auditory" THEN b.audioStimuli \o spawn ELSE b.audioStimuli
      ms == IF b.selectedFunction = "motor" THEN b.motorCommands \o spawn ELSE b.motorCommands
      cog == CognitiveDue(b.cognitiveTask, now)
      r0 == b.brainRegions
      boostStim(r) ==
        ApplyBoosts(ApplyBoosts(ApplyBoosts(r, DueVisual(vs, now), "visual"),
                                DueAudio(as, now), "auditory"),
                    DueMotor(ms, now), "motor")
      boostCog(r) == IF cog THEN CognitiveBoostOf(r, b.cognitiveTask) ELSE r
      regions == IF deferred THEN boostStim(Decay(boostCog(r0)))
                 ELSE Decay(boostCog(boostStim(r0)))
      stimSpikes == SpikesOf(DueVisual(vs, now), "visual", speed)
                      \o SpikesOf(DueAudio(as, now), "auditory", speed)
                      \o SpikesOf(DueMotor(ms, now), "motor", speed)
      cogSpikes == IF cog THEN CognitiveSpikes(b.cognitiveTask, speed) ELSE <<>>
      newTime == now + TimeStep(b.processingSpeed)
  IN  [b EXCEPT
         !.currentTime = newTime,
         !.visualStimuli =
            Cleanup([k \in 1..Len(vs) |->
                       IF VisualDue(vs[k], now) THEN [vs[k] EXCEPT !.processed = TRUE]
                       ELSE vs[k]], newTime),
         !.audioStimuli =
            Cleanup([k \in 1..Len(as) |->
                       IF AudioDue(as[k], now) THEN [as[k] EXCEPT !.processed = TRUE]
                       ELSE as[k]], newTime),
         !.motorCommands =
            Cleanup([k \in 1..Len(ms) |->
                       IF MotorDue(ms[k], now) THEN [ms[k] EXCEPT !.executed = TRUE]
                       ELSE ms[k]], newTime),
         !.cognitiveTask = IF task # NoTask THEN task ELSE b.cognitiveTask,
         !.brainRegions = regions,
         !.processingStats =
            [ visualProcessed |-> b.processingStats.visualProcessed + Len(DueVisual(vs, now)),
              audioProcessed |-> b.processingStats.audioProcessed + Len(DueAudio(as, now)),
              motorExecuted |-> b.processingStats.motorExecuted + Len(DueMotor(ms, now)),
              cognitiveAccuracy |-> IF cog THEN b.cognitiveTask.accuracy
                                    ELSE b.processingStats.cognitiveAccuracy ],
         !.spikes = b.spikes \o (IF deferred THEN cogSpikes \o stimSpikes
                                 ELSE stimSpikes \o cogSpikes)]

\* the stimuli generateStimulus can append for the selected function
Spawns(b) ==
  LET now == b.currentTime
  IN  IF b.stimulusIntensity = 0 THEN {}
      ELSE IF b.selectedFunction = "visual" THEN
        {<<[type |-> ty, intensity |-> i, processed |-> FALSE, startTime |-> now]>> :
           ty \in VisualTypes, i \in VisualIntensities}
      ELSE IF b.selectedFunction = "auditory" THEN
        {<<[frequency |-> f, amplitude |-> a, startTime |-> now, processed |-> FALSE]>> :
           f \in Frequencies, a \in Amplitudes}
      ELSE IF b.selectedFunction = "motor" THEN
        {<<[intensity |-> i, startTime |-> now, executed |-> FALSE]>> : i \in MotorIntensities}
      ELSE {}

\* the cognitive tasks generateStimulus can set
Tasks(b) ==
  IF b.selectedFunction = "cognitive" /\ b.stimulusIntensity > 0 /\ b.cognitiveTask = NoTask
  THEN {[type |-> ty, accuracy |-> a] : ty \in TaskTypes, a \in Accuracies}
  ELSE {}

\* the spike animation step
SpikeStep(spikes, processingSpeed) ==
  LET Moving(s) == s.t < 10000
  IN  SelectSeq([k \in 1..Len(spikes) |->
                   [spikes[k] EXCEPT !.t = spikes[k].t + (spikes[k].speed * processingSpeed) \div 10]],
                Moving)

\* BrainEffects that leaves the interval of the previous render running
BrainEffectsLeak(t, b, restartRaf) ==
  [t EXCEPT !.interval = t.interval + (IF b.isRunning THEN 1 ELSE 0),
            !.raf = IF restartRaf
                    THEN (IF t.raf > 0 THEN t.raf - 1 ELSE 0) + (IF b.isRunning THEN 1 ELSE 0)
                    ELSE t.raf]

\* the effects that own a timer, run after a render in which their dependencies
\* may have changed: each cleanup cancels what the effect created, then the
\* effect creates its timer again iff isRunning.  restartRaf tells whether the
\* dependencies of the animation effect (isRunning, processingSpeed) changed.
BrainEffects(t, b, restartRaf) ==
  [t EXCEPT !.interval = (IF t.interval > 0 THEN t.interval - 1 ELSE 0)
                           + (IF b.isRunning THEN 1 ELSE 0),
            !.raf = IF restartRaf
                    THEN (IF t.raf > 0 THEN t.raf - 1 ELSE 0) + (IF b.isRunning THEN 1 ELSE 0)
                    ELSE t.raf]

\* the interval callback (every 100 ms while the interval is live)
BrainTickBounded(frames, maxTime) ==
  /\ page = "brain"
  /\ brainTimers.interval > 0
  /\ brain.currentTime < maxTime
  /\ brain.spikes = <<>> \/ brainTimers.frames = frames
  /\ \E spawn \in {<<>>} \cup Spawns(brain), task \in {NoTask} \cup Tasks(brain),
        speed \in SpikeSpeeds, deferred \in BOOLEAN :
       /\ Len(brain.visualStimuli) + Len(brain.audioStimuli) + Len(brain.motorCommands)
            + Len(spawn) <= MaxStimuli
       /\ brain' = BrainStep(brain, spawn, task, speed, deferred)
  /\ Len(brain'.spikes) <= MaxSpikes
  /\ LET due == CognitiveDue(brain.cognitiveTask, brain.currentTime)
     IN  /\ brainTimers.timeouts + brainTimers.stale + (IF due THEN 1 ELSE 0) <= MaxTimeouts
         /\ brainTimers' =
              [BrainEffects(brainTimers, brain', FALSE) EXCEPT
                 !.timeouts = @ + (IF due THEN 1 ELSE 0),
                 !.own = @ + (IF due THEN 1 ELSE 0), !.frames = 0]
  /\ UNCHANGED <<page, bnn, bnnTimer, ml, mlTimer, ann, annTimer>>

BrainTickAfter(frames) == BrainTickBounded(frames, MaxBrainTime)

BrainTick == BrainTickAfter(FramesPerTick)

\* the same callback over a run long enough for stimuli to reach MaxAge
BrainAgingTick == BrainTickBounded(FramesPerTick, MaxAgingTime)

\* one animation frame of the spike loop
BrainFrameUpTo(frames) ==
  /\ page = "brain"
  /\ brainTimers.raf > 0
  /\ brain.spikes # <<>>
  /\ brainTimers.frames < frames
  /\ brain' = [brain EXCEPT !.spikes = SpikeStep(brain.spikes, brain.processingSpeed)]
  /\ brainTimers' = [brainTimers EXCEPT !.frames = @ + 1]
  /\ UNCHANGED <<page, bnn, bnnTimer, ml, mlTimer, ann, annTimer>>

BrainFrame == BrainFrameUpTo(FramesPerTick)

\* the callback of setTimeout(() => setCognitiveTask(null), 2000), scheduled
\* since the last pause or reset
BrainTimeout ==
  /\ page = "brain"
  /\ brainTimers.timeouts > 0
  /\ brain' = [brain EXCEPT !.cognitiveTask = NoTask]
  /\ brainTimers' = [brainTimers EXCEPT !.timeouts = @ - 1, !.own = 0]
  /\ UNCHANGED <<page, bnn, bnnTimer, ml, mlTimer, ann, annTimer>>

\* the same callback, scheduled before the last pause or reset
BrainStaleTimeout ==
  /\ page = "brain"
  /\ brainTimers.stale > 0
  /\ brain' = [brain EXCEPT !.cognitiveTask = NoTask]
  /\ brainTimers' = [brainTimers EXCEPT !.stale = @ - 1, !.own = 0]
  /\ UNCHANGED <<page, bnn, bnnTimer, ml, mlTimer, ann, annTimer>>

\* pending timeouts become timeouts of before a pause or reset
Outdated(t) == [t EXCEPT !.stale = t.stale + t.timeouts, !.timeouts = 0]

BrainToggle ==
  /\ page = "brain"
  /\ brain' = [brain EXCEPT !.isRunning = ~brain.isRunning]
  /\ brainTimers' =
       BrainEffects(IF brain.isRunning THEN Outdated(brainTimers) ELSE brainTimers,
                    brain', TRUE)
  /\ UNCHANGED <<page, bnn, bnnTimer, ml, mlTimer, ann, annTimer>>

\* a reset that leaves the cognitive task in place
BrainResetStateKeepsTask(b) ==
  [b EXCEPT !.isRunning = FALSE,
            !.brainRegions = initializeBrainRegions,
            !.visualStimuli = <<>>,
            !.audioStimuli = <<>>,
            !.motorCommands = <<>>,
            !.spikes = <<>>,
            !.currentTime = 0,
            !.processingStats = NoStats]

\* what resetSimulation sets
BrainResetState(b) ==
  [b EXCEPT !.isRunning = FALSE,
            !.brainRegions = initializeBrainRegions,
            !.visualStimuli = <<>>,
            !.audioStimuli = <<>>,
            !.motorCommands = <<>>,
            !.cognitiveTask = NoTask,
            !.spikes = <<>>,
            !.currentTime = 0,
            !.processingStats = NoStats]

BrainReset ==
  /\ page = "brain"
  /\ brain' = BrainResetState(brain)
  /\ brainTimers' =
       [BrainEffects(Outdated(brainTimers), brain', brain.isRunning) EXCEPT
          !.frames = 0, !.own = 0]
  /\ UNCHANGED <<page, bnn, bnnTimer, ml, mlTimer, ann, annTimer>>

BrainSetFunction ==
  /\ page = "brain"
  /\ brain.inputs < MaxInputs
  /\ \E f \in Functions \ {brain.selectedFunction} :
       brain' = [brain EXCEPT !.selectedFunction = f, !.inputs = @ + 1]
  /\ brainTimers' = BrainEffects(brainTimers, brain', FALSE)
  /\ UNCHANGED <<page, bnn, bnnTimer, ml, mlTimer, ann, annTimer>>

BrainSetSpeed ==
  /\ page = "brain"
  /\ brain.inputs < MaxInputs
  /\ \E v \in ProcSpeeds \ {brain.processingSpeed} :
       brain' = [brain EXCEPT !.processingSpeed = v, !.inputs = @ + 1]
  /\ brainTimers' = BrainEffects(brainTimers, brain', TRUE)
  /\ UNCHANGED <<page, bnn, bnnTimer, ml, mlTimer, ann, annTimer>>

BrainSetIntensity ==
  /\ page = "brain"
  /\ brain.inputs < MaxInputs
  /\ \E v \in StimIntensities \ {brain.stimulusIntensity} :
       brain' = [brain EXCEPT !.stimulusIntensity = v, !.inputs = @ + 1]
  /\ brainTimers' = BrainEffects(brainTimers, brain', FALSE)
  /\ UNCHANGED <<page, bnn, bnnTimer, ml, mlTimer, ann, annTimer>>

NextBrain ==
  \/ BrainTick \/ BrainFrame \/ BrainTimeout \/ BrainStaleTimeout \/ BrainToggle
  \/ BrainReset \/ BrainSetFunction \/ BrainSetSpeed \/ BrainSetIntensity

(***************************************************************************)
(* ML algorithms                                                           *)
(* Random values, coordinates, slope, intercept and cost are in            *)
(* thousandths; the learning rate is in slider steps of 0.001.             *)
(***************************************************************************)

\* bounds of the model
MaxMLInputs == 1
\* mousedowns on the canvas in one run
MaxFigures == 1
MaxResets == 2

\* program constants
SeedBase == 12345
LinearCount == 50
BackpropCount == 100
ClusterCount == 40
MaxDepth == 3
MinSplit == 5
BackpropPhases == 8

Algorithms == {"linear", "backprop", "forest", "cnn"}
\* learning-rate slider: 0.001 (the minimum) and 0.01 (the default)
LearningRates == {1, 10}
\* maxIterations slider: 10 (the minimum) and 20
IterationCeilings == {10, 20}

\* floor(frac(Math.sin(seed) * 10000) * 1000) for seed = SeedBase, SeedBase + 1, ...
Randoms ==
  <<
     283, 328, 831, 522, 376, 460, 731, 51, 437, 801, 220, 671, 84, 267, 35, 216,
     120, 154, 91, 550, 943, 511, 463, 151, 490, 220, 862, 937, 990, 457, 72, 307,
     211, 200, 438, 488, 470, 400, 9, 191, 164, 135, 607, 546, 567, 710, 776, 253,
     462, 974, 61, 557, 212, 836, 754, 25, 746, 422, 37, 330, 141, 339, 165, 933,
     72, 889, 625, 93, 370, 56, 644, 795, 112, 908, 716, 769, 875, 644, 359, 4,
     449, 594, 421, 245, 917, 244, 23, 183, 958, 430, 60, 849, 823, 757, 489, 140,
     135, 872, 901, 797, 247, 227, 63, 820, 303, 59, 594, 328, 99, 227, 683, 723,
     934, 27, 128, 358, 133, 302, 239, 238, 909, 642, 430, 886, 431, 427, 681, 739,
     296, 349, 566, 881, 449, 439, 637, 312, 505, 860, 21, 758, 152, 895, 697, 42,
     610, 651, 58, 657, 628, 366, 415, 719, 972, 483, 645, 89, 229, 130, 268, 577,
     45, 681, 694, 728, 275, 140, 627, 162, 473, 928, 765, 616, 265, 467, 290, 682,
     31, 685, 459, 642, 555, 333, 665, 370, 212, 889, 178, 814, 858, 666, 966, 811,
     140, 317, 664, 89, 638, 615, 520, 243, 301, 366, 16, 400, 843, 90, 134, 253,
     937, 84, 929, 865, 628, 126, 650, 822, 790, 613, 248, 627, 695, 118, 482, 841,
     22, 225, 427, 931, 260, 841, 382, 169, 11, 237, 733, 254, 865, 967, 374, 421 >>

\* the value seededRandom returns when seedValue is seed
Random(seed) == Randoms[seed - SeedBase + 1]

\* resetSeed that leaves the seed where it is
resetSeedKeep(seed) == seed

\* the seedValue resetSeed leaves
resetSeed(seed) == SeedBase

\* the product of two numbers in thousandths
FixMul(a, b) == TruncDiv(a * b, 1000)

\* round(1000 * cos(2 * pi * k / 100)) for k = 0 .. 99
Cosines ==
  <<
     1000, 998, 992, 982, 969, 951, 930, 905, 876, 844, 809, 771, 729, 685, 637, 588, 536, 482, 426, 368,
     309, 249, 187, 125, 63, 0, -63, -125, -187, -249, -309, -368, -426, -482, -536, -588, -637, -685, -729, -771,
     -809, -844, -876, -905, -930, -951, -969, -982, -992, -998, -1000, -998, -992, -982, -969, -951, -930, -905, -876, -844,
     -809, -771, -729, -685, -637, -588, -536, -482, -426, -368, -309, -249, -187, -125, -63, 0, 63, 125, 187, 249,
     309, 368, 426, 482, 536, 588, 637, 685, 729, 771, 809, 844, 876, 905, 930, 951, 969, 982, 992, 998 >>

\* cosine and sine of an angle given in thousandths of a turn
Cos(turn) == Cosines[((turn \div 10) % 100) + 1]
Sin(turn) == Cosines[(((turn \div 10) + 75) % 100) + 1]

Clamp10(v) == Max(0, Min(10000, v))

\* the 50 points of the linear case, drawn from seed on
LinearPoints(seed) ==
  LET trueSlope == 2000 + Random(seed)
      trueIntercept == 1000 + 2 * Random(seed + 1)
  IN  [i \in 1..LinearCount |->
         LET x == 10 * Random(seed + 2 * i)
         IN  [x |-> x,
              y |-> FixMul(trueSlope, x) + trueIntercept
                      + 2 * (Random(seed + 2 * i + 1) - 500)]]

\* the 100 points of the backprop case
BackpropPoints(seed) ==
  [i \in 1..BackpropCount |->
     LET x == 10 * Random(seed + 2 * (i - 1))
         y == 10 * Random(seed + 2 * (i - 1) + 1)
     IN  [x |-> x, y |-> y, label |-> IF (x > 5000) # (y > 5000) THEN 1 ELSE 0]]

Clusters == << [centerX |-> 2000, centerY |-> 2000, label |-> 0],
               [centerX |-> 8000, centerY |-> 2000, label |-> 1],
               [centerX |-> 5000, centerY |-> 8000, label |-> 2] >>

\* the 3 x 40 points of the forest case
ForestPoints(seed) ==
  [k \in 1..(3 * ClusterCount) |->
     LET c == Clusters[(k - 1) \div ClusterCount + 1]
         angle == Random(seed + 2 * (k - 1))
         radius == 2 * Random(seed + 2 * (k - 1) + 1)
     IN  [x |-> Clamp10(c.centerX + FixMul(Cos(angle), radius)),
          y |-> Clamp10(c.centerY + FixMul(Sin(angle), radius)),
          label |-> c.label]]

\* the canvas is GridSize x GridSize cells; a drawing maps the painted cells
\* <<x, y>> to their intensity in thousandths, every other cell is 0
GridSize == 28

Cells == (0..(GridSize - 1)) \X (0..(GridSize - 1))

\* the canvas; nothing is drawn on it
BlankDrawing == [c \in {} |-> 0]

Cell(grid, c) == IF c \in DOMAIN grid THEN grid[c] ELSE 0

\* the sum f[lo] + ... + f[hi]: the size of the bag of the positive entries
\* less the size of the bag of the negated negative ones
SumOver(f, lo, hi) ==
  LET positive == {k \in lo..hi : f[k] > 0}
      negative == {k \in lo..hi : f[k] < 0}
  IN  BagCardinality([k \in positive |-> f[k]]) - BagCardinality([k \in negative |-> -f[k]])

\* grid.flat().reduce((sum, val) => sum + val, 0); the cells that were never
\* painted add 0
GridSum(grid) == BagCardinality([c \in {d \in DOMAIN grid : grid[d] > 0} |-> grid[c]])

\* (1 - distance / 2.2) * 0.8 for the squared distances below 2.2 * 2.2
BrushIntensity(d2) ==
  IF d2 = 0 THEN 800 ELSE IF d2 = 1 THEN 436 ELSE IF d2 = 2 THEN 286
  ELSE IF d2 = 4 THEN 73 ELSE 0

\* the drawing after the brush came down on cell <<x, y>>
Brush(grid, x, y) ==
  LET touched == {c \in Cells : (c[1] - x) * (c[1] - x) + (c[2] - y) * (c[2] - y) < 5}
  IN  [c \in DOMAIN grid \cup touched |->
         IF c \in touched
         THEN Min(1000, Cell(grid, c)
                          + BrushIntensity((c[1] - x) * (c[1] - x) + (c[2] - y) * (c[2] - y)))
         ELSE grid[c]]

Neighbours(c) ==
  {<<c[1] + 1, c[2]>>, <<c[1] - 1, c[2]>>, <<c[1], c[2] + 1>>, <<c[1], c[2] - 1>>} \cap Cells

\* the cells floodFill enters from the cells of frontier
Entered(grid, frontier, visited) ==
  {c \in UNION {Neighbours(d) : d \in frontier} : c \notin visited /\ Cell(grid, c) <= 100}

\* floodFill one cell further
Spread(grid, fill) ==
  LET next == Entered(grid, fill.frontier, fill.visited)
  IN  [frontier |-> next, visited |-> fill.visited \cup next]

\* floodFill spreading from the cells of fill.frontier, four cells further
\* per round
RECURSIVE Flood(_, _)
Flood(grid, fill) ==
  IF fill.frontier = {} THEN fill.visited
  ELSE Flood(grid, Spread(grid, Spread(grid, Spread(grid, Spread(grid, fill)))))

\* floodFill(x, y): the cells visited once it returns
floodFill(grid, visited, c) ==
  IF c \in visited \/ Cell(grid, c) > 100 THEN visited
  ELSE Flood(grid, [frontier |-> {c}, visited |-> visited \cup {c}])

\* the second loop of countLoops: every unvisited empty cell, in row order,
\* counts one loop and is flood-filled
RECURSIVE CountFrom(_, _, _)
CountFrom(grid, visited, loops) ==
  LET open == {c \in Cells : c \notin visited /\ Cell(grid, c) < 100}
  IN  IF open = {} THEN loops
      ELSE LET first == CHOOSE c \in open :
                          \A d \in open : c[2] * GridSize + c[1] <= d[2] * GridSize + d[1]
           IN  CountFrom(grid, floodFill(grid, visited, first), loops + 1)

countLoops(grid) == CountFrom(grid, floodFill(grid, {}, <<0, 0>>), 0)

\* 1 - |a - b| summed over the cells of the left (upper) half and their
\* mirror images, divided by the number of pairs; in thousandths
getSymmetry(grid) ==
  LET pairs == GridSize * (GridSize \div 2)
      Abs(a) == IF a < 0 THEN -a ELSE a
      \* the k-th pair: row (column) k \div 14 and the offset k % 14 into the half
      line(k) == k \div (GridSize \div 2)
      off(k) == k % (GridSize \div 2)
      vDiff == [k \in 0..(pairs - 1) |->
                  Abs(Cell(grid, <<off(k), line(k)>>)
                        - Cell(grid, <<GridSize - 1 - off(k), line(k)>>))]
      hDiff == [k \in 0..(pairs - 1) |->
                  Abs(Cell(grid, <<line(k), off(k)>>)
                        - Cell(grid, <<line(k), GridSize - 1 - off(k)>>))]
  IN  [v |-> (pairs * 1000 - SumOver(vDiff, 0, pairs - 1)) \div pairs,
       h |-> (pairs * 1000 - SumOver(hDiff, 0, pairs - 1)) \div pairs]

\* height / width of the bounding box of the cells above 0.1, in thousandths
getAspectRatio(grid) ==
  LET inked == {c \in DOMAIN grid : grid[c] > 100}
      Least(S, top) == IF S = {} THEN top ELSE CHOOSE a \in S : \A b \in S : a <= b
      Most(S) == IF S = {} THEN 0 ELSE CHOOSE a \in S : \A b \in S : a >= b
      xs == {c[1] : c \in inked}
      ys == {c[2] : c \in inked}
      width == Most(xs) - Least(xs, GridSize) + 1
      height == Most(ys) - Least(ys, GridSize) + 1
      divisor == IF width = 0 THEN 1 ELSE width
  IN  IF divisor > 0 THEN TruncDiv(height * 1000, divisor)
      ELSE TruncDiv(-(height * 1000), -divisor)

\* the heuristic scores of the digits 0..9 (at 1..10), in thousandths
DigitScores(loops, symmetry, aspectRatio) ==
  LET v == symmetry.v
      h == symmetry.h
      If(b, yes, no) == IF b THEN yes ELSE no
  IN  << If(loops = 1 /\ v > 900 /\ h > 800, 8000, 0) + 3 * v + 3 * h,
         If(loops = 0 /\ aspectRatio > 2000 /\ v > 900, 10000, -2000) + 4 * v,
         If(loops = 0 /\ v < 800 /\ h < 800, 5000, 0),
         If(loops = 0 /\ h > 800, 6000, 0),
         If(loops = 0, 4000, 0),
         If(loops = 0, 3000, 0),
         If(loops = 1 /\ h < 750, 7000, 0),
         If(loops = 0 /\ aspectRatio < 1500, 5000, 0),
         If(loops = 2, 10000, -5000) + 2 * v + 2 * h,
         If(loops = 1 /\ h < 750, 7000, 0) >>

\* round(1000000 * exp(-0.05 * e)) for e = 0 .. 280
ExpMicro ==
  <<
     1000000, 951229, 904837, 860708, 818731, 778801, 740818, 704688, 670320, 637628, 606531, 576950,
     548812, 522046, 496585, 472367, 449329, 427415, 406570, 386741, 367879, 349938, 332871, 316637,
     301194, 286505, 272532, 259240, 246597, 234570, 223130, 212248, 201897, 192050, 182684, 173774,
     165299, 157237, 149569, 142274, 135335, 128735, 122456, 116484, 110803, 105399, 100259, 95369,
     90718, 86294, 82085, 78082, 74274, 70651, 67206, 63928, 60810, 57844, 55023, 52340,
     49787, 47359, 45049, 42852, 40762, 38774, 36883, 35084, 33373, 31746, 30197, 28725,
     27324, 25991, 24724, 23518, 22371, 21280, 20242, 19255, 18316, 17422, 16573, 15764,
     14996, 14264, 13569, 12907, 12277, 11679, 11109, 10567, 10052, 9562, 9095, 8652,
     8230, 7828, 7447, 7083, 6738, 6409, 6097, 5799, 5517, 5248, 4992, 4748,
     4517, 4296, 4087, 3887, 3698, 3518, 3346, 3183, 3028, 2880, 2739, 2606,
     2479, 2358, 2243, 2133, 2029, 1930, 1836, 1747, 1662, 1581, 1503, 1430,
     1360, 1294, 1231, 1171, 1114, 1059, 1008, 959, 912, 867, 825, 785,
     747, 710, 676, 643, 611, 581, 553, 526, 500, 476, 453, 431,
     410, 390, 371, 353, 335, 319, 304, 289, 275, 261, 249, 236,
     225, 214, 203, 194, 184, 175, 167, 158, 151, 143, 136, 130,
     123, 117, 112, 106, 101, 96, 91, 87, 83, 79, 75, 71,
     68, 64, 61, 58, 55, 53, 50, 48, 45, 43, 41, 39,
     37, 35, 34, 32, 30, 29, 28, 26, 25, 24, 23, 21,
     20, 19, 18, 18, 17, 16, 15, 14, 14, 13, 12, 12,
     11, 11, 10, 10, 9, 9, 8, 8, 8, 7, 7, 6,
     6, 6, 6, 5, 5, 5, 5, 4, 4, 4, 4, 4,
     3, 3, 3, 3, 3, 3, 2, 2, 2, 2, 2, 2,
     2, 2, 2, 2, 2, 1, 1, 1, 1, 1, 1, 1,
     1, 1, 1, 1, 1 >>

\* Math.exp(-d) for d >= 0 in thousandths, in millionths
ExpNeg(d) ==
  IF d >= 14000 THEN 0
  ELSE LET k == d \div 50
           lo == ExpMicro[k + 1]
           hi == ExpMicro[k + 2]
       IN  lo - ((lo - hi) * (d % 50)) \div 50

\* a softmax that divides by the largest exponential
SoftmaxByMax(scores) ==
  LET maxScore == CHOOSE s \in {scores[k] : k \in 1..Len(scores)} :
                    \A k \in 1..Len(scores) : s >= scores[k]
      exps == [k \in 1..Len(scores) |-> ExpNeg(maxScore - scores[k])]
  IN  [k \in 1..Len(scores) |-> [num |-> exps[k], den |-> ExpNeg(0)]]

\* the softmax of the scores; a probability exp / sumExps is the fraction
\* num / den
Softmax(scores) ==
  LET maxScore == CHOOSE s \in {scores[k] : k \in 1..Len(scores)} :
                    \A k \in 1..Len(scores) : s >= scores[k]
      exps == [k \in 1..Len(scores) |-> ExpNeg(maxScore - scores[k])]
      sumExps == SumOver(exps, 1, Len(scores))
  IN  [k \in 1..Len(scores) |-> [num |-> exps[k], den |-> sumExps]]

\* Array(10).fill(0.1)
UniformDigits == [k \in 1..10 |-> [num |-> 1, den |-> 10]]

\* recognizeDigit: the probabilities of the digits 0..9 (at 1..10)
recognizeDigit(grid) ==
  IF GridSum(grid) < 5000 THEN UniformDigits
  ELSE Softmax(DigitScores(countLoops(grid), getSymmetry(grid), getAspectRatio(grid)))

\* the layers generateData sets in the cnn case: every activation zero
ZeroLayers == [input |-> BlankDrawing, fc |-> [k \in 1..10 |-> [num |-> 0, den |-> 1]]]

\* the layers updateCNNLayers sets for a drawing
updateCNNLayers(drawing) == [input |-> drawing, fc |-> recognizeDigit(drawing)]

\* generateData: re-seeds, then draws the points of the selected algorithm
generateData(m) ==
  LET seed == resetSeed(m.seedValue)
      alg == m.selectedAlgorithm
  IN  IF alg = "linear" THEN
        [m EXCEPT !.dataPoints = LinearPoints(seed),
                  !.seedValue = seed + 2 + 2 * LinearCount]
      ELSE IF alg = "backprop" THEN
        [m EXCEPT !.dataPoints = BackpropPoints(seed),
                  !.seedValue = seed + 2 * BackpropCount]
      ELSE IF alg = "forest" THEN
        [m EXCEPT !.dataPoints = ForestPoints(seed),
                  !.seedValue = seed + 6 * ClusterCount]
      ELSE [m EXCEPT !.dataPoints = <<>>, !.cnnLayers = ZeroLayers, !.seedValue = seed]

\* resetSeed followed by setLinearRegression with two seeded draws
InitialRegression(m) ==
  LET seed == resetSeed(m.seedValue)
  IN  [m EXCEPT !.linearRegression =
                   [slope |-> Random(seed) - 500, intercept |-> Random(seed + 1) - 500,
                    cost |-> 0, iteration |-> 0, previousCost |-> 0],
                !.seedValue = seed + 2]

LabelOf(d) == IF "label" \in DOMAIN d THEN d.label ELSE 0

Labels(data) == {LabelOf(data[k]) : k \in 1..Len(data)}

LabelCount(data, l) == Cardinality({k \in 1..Len(data) : LabelOf(data[k]) = l})

\* a reduce that keeps the accumulator on equal counts
RECURSIVE MajorityFromFirst(_, _, _)
MajorityFromFirst(data, keys, acc) ==
  IF keys = {} THEN acc
  ELSE LET b == CHOOSE l \in keys : \A o \in keys : l <= o
       IN  MajorityFromFirst(data, keys \ {b},
                             IF acc \in Labels(data) /\ LabelCount(data, acc) >= LabelCount(data, b)
                             THEN acc ELSE b)

\* the reduce over Object.keys(labelCounts), which lists the labels in
\* ascending order, starting from "0"
RECURSIVE MajorityFrom(_, _, _)
MajorityFrom(data, keys, acc) ==
  IF keys = {} THEN acc
  ELSE LET b == CHOOSE l \in keys : \A o \in keys : l <= o
       IN  MajorityFrom(data, keys \ {b},
                        IF acc \in Labels(data) /\ LabelCount(data, acc) > LabelCount(data, b)
                        THEN acc ELSE b)

Majority(data) == MajorityFrom(data, Labels(data), 0)

Leaf(data, depth) ==
  [feature |-> "leaf", threshold |-> 0, prediction |-> Majority(data),
   samples |-> Len(data), depth |-> depth]

Coord(d, feature) == IF feature = "x" THEN d.x ELSE d.y

LeftData(data, feature, threshold) ==
  LET Below(d) == Coord(d, feature) < 1000 * threshold IN SelectSeq(data, Below)

RightData(data, feature, threshold) ==
  LET NotBelow(d) == Coord(d, feature) >= 1000 * threshold IN SelectSeq(data, NotBelow)

\* the candidate splits in the order the loops visit them
Candidates ==
  [k \in 1..18 |-> [feature |-> IF k <= 9 THEN "x" ELSE "y",
                    threshold |-> IF k <= 9 THEN k ELSE k - 9]]

\* the body of the two loops for candidate k; gain is kept as |left - right|,
\* the numerator of the gain over data.length
TrySplit(data, k, best) ==
  LET c == Candidates[k]
      l == Len(LeftData(data, c.feature, c.threshold))
      r == Len(RightData(data, c.feature, c.threshold))
      gain == IF l >= r THEN l - r ELSE r - l
  IN  IF l > 0 /\ r > 0 /\ gain > best.gain
      THEN [feature |-> c.feature, threshold |-> c.threshold, gain |-> gain]
      ELSE best

\* bestSplit after the loops visited the candidates lo..hi, starting from
\* best: the first candidate of the largest gain if that gain exceeds
\* best.gain, else best; lo..mid are visited before mid + 1..hi, so the later
\* half wins only with a strictly larger gain
RECURSIVE BestSplit(_, _, _, _)
BestSplit(data, lo, hi, best) ==
  IF lo > hi THEN best
  ELSE IF lo = hi THEN TrySplit(data, lo, best)
  ELSE LET mid == (lo + hi) \div 2
           first == BestSplit(data, lo, mid, best)
           second == BestSplit(data, mid + 1, hi, best)
       IN  IF second.gain > first.gain THEN second ELSE first

\* a builder without the fallback for an empty partition
RECURSIVE buildDecisionTreeNoFallback(_, _)
buildDecisionTreeNoFallback(data, depth) ==
  IF depth >= MaxDepth \/ Len(data) < MinSplit THEN Leaf(data, depth)
  ELSE LET best == BestSplit(data, 1, Len(Candidates),
                        [feature |-> "x", threshold |-> 5, gain |-> 0])
       IN  [feature |-> best.feature, threshold |-> best.threshold,
            left |-> buildDecisionTreeNoFallback(LeftData(data, best.feature, best.threshold),
                                                 depth + 1),
            right |-> buildDecisionTreeNoFallback(RightData(data, best.feature, best.threshold),
                                                  depth + 1),
            samples |-> Len(data), depth |-> depth]

RECURSIVE buildDecisionTree(_, _)
buildDecisionTree(data, depth) ==
  IF depth >= MaxDepth \/ Len(data) < MinSplit THEN Leaf(data, depth)
  ELSE LET best == BestSplit(data, 1, Len(Candidates),
                        [feature |-> "x", threshold |-> 5, gain |-> 0])
           leftData == LeftData(data, best.feature, best.threshold)
           rightData == RightData(data, best.feature, best.threshold)
       IN  IF leftData = <<>> \/ rightData = <<>> THEN Leaf(data, depth)
           ELSE [feature |-> best.feature, threshold |-> best.threshold,
                 left |-> buildDecisionTree(leftData, depth + 1),
                 right |-> buildDecisionTree(rightData, depth + 1),
                 samples |-> Len(data), depth |-> depth]

NoTree == [feature |-> "none"]

\* the sum of the elements of the sequence s
SumSeq(s) == SumOver(s, 1, Len(s))

\* a gradient-descent iteration that updates the slope first and computes
\* the intercept's gradient from the new slope
LinearStepSequential(m) ==
  LET slope == m.linearRegression.slope
      intercept == m.linearRegression.intercept
      pts == m.dataPoints
      n == Len(pts)
      error(a, p) == FixMul(a, p.x) + intercept - p.y
      slopeGradient == TruncDiv(2 * SumSeq([k \in 1..n |-> FixMul(error(slope, pts[k]), pts[k].x)]), n)
      newSlope == slope - FixMul(m.learningRate, slopeGradient)
      interceptGradient == TruncDiv(2 * SumSeq([k \in 1..n |-> error(newSlope, pts[k])]), n)
      totalCost == TruncDiv(SumSeq([k \in 1..n |-> FixMul(error(slope, pts[k]), error(slope, pts[k]))]), n)
  IN  IF n = 0 THEN m
      ELSE [m EXCEPT !.linearRegression =
                        [slope |-> newSlope,
                         intercept |-> intercept - FixMul(m.learningRate, interceptGradient),
                         cost |-> totalCost,
                         iteration |-> m.iterations + 1,
                         previousCost |-> m.linearRegression.cost]]

\* one gradient-descent iteration
LinearStep(m) ==
  LET slope == m.linearRegression.slope
      intercept == m.linearRegression.intercept
      pts == m.dataPoints
      n == Len(pts)
      error(p) == FixMul(slope, p.x) + intercept - p.y
      slopeGradient == TruncDiv(2 * SumSeq([k \in 1..n |-> FixMul(error(pts[k]), pts[k].x)]), n)
      interceptGradient == TruncDiv(2 * SumSeq([k \in 1..n |-> error(pts[k])]), n)
      totalCost == TruncDiv(SumSeq([k \in 1..n |-> FixMul(error(pts[k]), error(pts[k]))]), n)
  IN  IF n = 0 THEN m
      ELSE [m EXCEPT !.linearRegression =
                        [slope |-> slope - FixMul(m.learningRate, slopeGradient),
                         intercept |-> intercept - FixMul(m.learningRate, interceptGradient),
                         cost |-> totalCost,
                         iteration |-> m.iterations + 1,
                         previousCost |-> m.linearRegression.cost]]

\* the forward steps of layers 0..3 followed by the backward steps of layers
\* 3..0; every value and gradient is a function of the layer and of seed
BackpropStepsOf(seed) ==
  [k \in 1..BackpropPhases |->
     IF k <= 4 THEN [layer |-> k - 1, type |-> "forward", seed |-> seed]
     ELSE [layer |-> BackpropPhases - k, type |-> "backward", seed |-> seed]]

\* BackpropStep that advances the highlighted step without wrapping
BackpropStepNoWrap(m) ==
  [m EXCEPT !.backpropSteps = BackpropStepsOf(m.iterations + 1),
            !.currentBackpropStep = m.currentBackpropStep + 1]

BackpropStep(m) ==
  [m EXCEPT !.backpropSteps = BackpropStepsOf(m.iterations + 1),
            !.currentBackpropStep = (m.currentBackpropStep + 1) % BackpropPhases]

ForestStep(m) ==
  IF m.dataPoints = <<>> THEN m
  ELSE [m EXCEPT !.decisionTree = buildDecisionTree(m.dataPoints, 0)]

CnnStep(m) == [m EXCEPT !.cnnLayers = updateCNNLayers(m.drawingData)]

\* runAlgorithmStep that steps every algorithm, whichever is selected
runAlgorithmStepEvery(m) ==
  IF ~m.isRunning \/ m.iterations >= m.maxIterations THEN m
  ELSE [CnnStep(ForestStep(BackpropStep(LinearStep(m)))) EXCEPT !.iterations = @ + 1]

\* runAlgorithmStep that counts two iterations per step
runAlgorithmStepTwice(m) ==
  IF ~m.isRunning \/ m.iterations >= m.maxIterations THEN m
  ELSE [m EXCEPT !.iterations = @ + 2]

runAlgorithmStep(m) ==
  IF ~m.isRunning \/ m.iterations >= m.maxIterations THEN m
  ELSE LET s == IF m.selectedAlgorithm = "linear" THEN LinearStep(m)
                ELSE IF m.selectedAlgorithm = "backprop" THEN BackpropStep(m)
                ELSE IF m.selectedAlgorithm = "forest" THEN ForestStep(m)
                ELSE CnnStep(m)
       IN  [s EXCEPT !.iterations = @ + 1]

\* the stop effect that never stops
StopAtMaxNever(m) == m

\* the effect on [iterations, maxIterations]
StopAtMax(m) ==
  IF m.iterations >= m.maxIterations THEN [m EXCEPT !.isRunning = FALSE] ELSE m

\* the loop effect after a render: its cleanup clears the interval it made,
\* then it makes one iff isRunning
MLLoopEffect(timer, m) ==
  (IF timer > 0 THEN timer - 1 ELSE 0) + (IF m.isRunning THEN 1 ELSE 0)

clearCanvas(m) ==
  [m EXCEPT !.drawingData = BlankDrawing, !.cnnLayers = updateCNNLayers(BlankDrawing)]

\* the effect on [selectedAlgorithm, generateData, isClient]
AlgorithmEffect(m) ==
  clearCanvas([InitialRegression(generateData(m)) EXCEPT
                 !.iterations = 0, !.currentBackpropStep = 0])

\* the state once the component is mounted on the client
MLInit ==
  AlgorithmEffect(InitialRegression(
    [ isRunning |-> FALSE,
      selectedAlgorithm |-> "linear",
      learningRate |-> 10,
      iterations |-> 0,
      maxIterations |-> 100,
      dataPoints |-> <<>>,
      linearRegression |-> [slope |-> 0, intercept |-> 0, cost |-> 0, iteration |-> 0,
                            previousCost |-> 0],
      backpropSteps |-> <<>>,
      currentBackpropStep |-> 0,
      decisionTree |-> NoTree,
      cnnLayers |-> <<>>,
      drawingData |-> BlankDrawing,
      isDrawing |-> FALSE,
      route |-> 1,
      waypoint |-> 0,
      figures |-> 0,
      seedValue |-> SeedBase,
      inputs |-> 0,
      resets |-> 0 ]))

\* the interval callback (every 200 or 300 ms while the interval is live),
\* followed by the effects of the render it causes
MLTick ==
  /\ page = "ml"
  /\ mlTimer > 0
  /\ ml' = StopAtMax(runAlgorithmStep(ml))
  /\ mlTimer' = MLLoopEffect(mlTimer, ml')
  /\ UNCHANGED <<page, bnn, bnnTimer, brain, brainTimers, ann, annTimer>>

\* the Start/Pause button, disabled while iterations >= maxIterations
MLToggle ==
  /\ page = "ml"
  /\ ml.iterations < ml.maxIterations
  /\ ml' = [ml EXCEPT !.isRunning = ~ml.isRunning]
  /\ mlTimer' = MLLoopEffect(mlTimer, ml')
  /\ UNCHANGED <<page, bnn, bnnTimer, brain, brainTimers, ann, annTimer>>

\* what resetSimulation sets
MLResetState(m) ==
  clearCanvas([InitialRegression(generateData(m)) EXCEPT
                 !.isRunning = FALSE,
                 !.iterations = 0,
                 !.currentBackpropStep = 0,
                 !.backpropSteps = <<>>,
                 !.decisionTree = NoTree])

MLReset ==
  /\ page = "ml"
  /\ ml.resets < MaxResets
  /\ ml' = [StopAtMax(MLResetState(ml)) EXCEPT !.resets = @ + 1]
  /\ mlTimer' = MLLoopEffect(mlTimer, ml')
  /\ UNCHANGED <<page, bnn, bnnTimer, brain, brainTimers, ann, annTimer>>

\* the algorithm tabs, disabled while running
MLSetAlgorithm ==
  /\ page = "ml"
  /\ ~ml.isRunning
  /\ ml.inputs < MaxMLInputs
  /\ \E a \in Algorithms \ {ml.selectedAlgorithm} :
       ml' = StopAtMax(AlgorithmEffect([ml EXCEPT !.selectedAlgorithm = a, !.inputs = @ + 1]))
  /\ mlTimer' = MLLoopEffect(mlTimer, ml')
  /\ UNCHANGED <<page, bnn, bnnTimer, brain, brainTimers, ann, annTimer>>

\* the learning-rate slider, disabled while running
MLSetLearningRate ==
  /\ page = "ml"
  /\ ~ml.isRunning
  /\ ml.inputs < MaxMLInputs
  /\ \E v \in LearningRates \ {ml.learningRate} :
       ml' = [ml EXCEPT !.learningRate = v, !.inputs = @ + 1]
  /\ mlTimer' = MLLoopEffect(mlTimer, ml')
  /\ UNCHANGED <<page, bnn, bnnTimer, brain, brainTimers, ann, annTimer>>

\* the maxIterations slider, disabled while running
MLSetMaxIterations ==
  /\ page = "ml"
  /\ ~ml.isRunning
  /\ ml.inputs < MaxMLInputs
  /\ \E v \in IterationCeilings \ {ml.maxIterations} :
       ml' = StopAtMax([ml EXCEPT !.maxIterations = v, !.inputs = @ + 1])
  /\ mlTimer' = MLLoopEffect(mlTimer, ml')
  /\ UNCHANGED <<page, bnn, bnnTimer, brain, brainTimers, ann, annTimer>>

\* the figures the mouse traces over the canvas, as the cells its successive
\* mousemove events fall on: a dot, a bar, a ring, two stacked rings, a stroke
\* along the top edge from the corner
Routes ==
  << << <<14, 14>> >>,
     << <<14, 4>>, <<14, 7>>, <<14, 10>>, <<14, 13>>, <<14, 16>>, <<14, 19>>, <<14, 22>> >>,
     << <<10, 8>>, <<13, 8>>, <<16, 8>>, <<19, 8>>, <<19, 11>>, <<19, 14>>, <<19, 17>>,
        <<16, 17>>, <<13, 17>>, <<10, 17>>, <<10, 14>>, <<10, 11>> >>,
     << <<10, 3>>, <<13, 3>>, <<16, 3>>, <<16, 6>>, <<16, 9>>, <<16, 12>>, <<13, 12>>,
        <<10, 12>>, <<10, 9>>, <<10, 6>>, <<10, 15>>, <<10, 18>>, <<10, 21>>, <<13, 21>>,
        <<16, 21>>, <<16, 18>>, <<16, 15>> >>,
     << <<0, 0>>, <<2, 0>>, <<4, 0>>, <<6, 0>> >> >>

\* draw(e): the brush comes down on the cell under the mouse
draw(m, x, y) ==
  LET newData == Brush(m.drawingData, x, y)
  IN  [m EXCEPT !.drawingData = newData, !.cnnLayers = updateCNNLayers(newData)]

\* mousedown on the canvas (shown for the cnn algorithm): startDrawing sets
\* isDrawing; its call of draw still reads the flag of the last render
MLStartDrawing ==
  /\ page = "ml"
  /\ ml.selectedAlgorithm = "cnn"
  /\ ml.figures < MaxFigures
  /\ \E r \in 1..Len(Routes) :
       ml' = [(IF ml.isDrawing
               THEN draw(ml, Routes[r][1][1], Routes[r][1][2])
               ELSE ml) EXCEPT !.isDrawing = TRUE, !.route = r, !.waypoint = 0,
                               !.figures = @ + 1]
  /\ mlTimer' = MLLoopEffect(mlTimer, ml')
  /\ UNCHANGED <<page, bnn, bnnTimer, brain, brainTimers, ann, annTimer>>

\* mousemove over the canvas: draw(e), which returns unless isDrawing
MLDraw ==
  /\ page = "ml"
  /\ ml.selectedAlgorithm = "cnn"
  /\ ml.isDrawing
  /\ ml.waypoint < Len(Routes[ml.route])
  /\ LET c == Routes[ml.route][ml.waypoint + 1]
     IN  ml' = [draw(ml, c[1], c[2]) EXCEPT !.waypoint = @ + 1]
  /\ mlTimer' = MLLoopEffect(mlTimer, ml')
  /\ UNCHANGED <<page, bnn, bnnTimer, brain, brainTimers, ann, annTimer>>

\* mouseup or mouseleave: stopDrawing
MLStopDrawing ==
  /\ page = "ml"
  /\ ml.selectedAlgorithm = "cnn"
  /\ ml.isDrawing
  /\ ml' = [ml EXCEPT !.isDrawing = FALSE]
  /\ mlTimer' = MLLoopEffect(mlTimer, ml')
  /\ UNCHANGED <<page, bnn, bnnTimer, brain, brainTimers, ann, annTimer>>

\* the Clear button of the canvas
MLClearCanvas ==
  /\ page = "ml"
  /\ ml.selectedAlgorithm = "cnn"
  /\ ml.drawingData # BlankDrawing
  /\ ml' = clearCanvas(ml)
  /\ mlTimer' = MLLoopEffect(mlTimer, ml')
  /\ UNCHANGED <<page, bnn, bnnTimer, brain, brainTimers, ann, annTimer>>

NextML ==
  \/ MLTick \/ MLToggle \/ MLReset \/ MLSetAlgorithm \/ MLSetLearningRate
  \/ MLSetMaxIterations

(***************************************************************************)
(* ANN simulation                                                          *)
(* Activations, inputs, loss and accuracy are in thousandths, weights and  *)
(* biases in hundred-thousandths, the learning rate in slider steps of     *)
(* 0.001.  Every Math.random() call of one handler run returns the same    *)
(* value.                                                                  *)
(***************************************************************************)

\* bounds of the model
MaxANNInputs == 1
MaxEpochTicks == 12
MaxForwardTicks == 2

ActivationNames == {"sigmoid", "relu", "tanh", "leaky_relu", "linear"}
NetworkTypes == {"perceptron", "multilayer"}
\* sliders: the default and one other position
InputNodeCounts == {3, 2}
HiddenLayerCounts == {2, 1}
NodesPerLayerCounts == {4, 2}
OutputNodeCounts == {2, 1}
ANNLearningRates == {10, 100}
EpochCeilings == {100, 10}
TrainingSpeeds == {200, 50}
\* Math.random() during initializeNetwork, and during a training tick
InitDraws == {250, 750}
TickDraws == {100, 900}

\* round(1000 / (1 + exp(-x))) for x = -6, -5.5, ..., 6
SigmoidTable ==
  <<
     2, 4, 7, 11, 18, 29, 47, 76, 119, 182, 269, 378, 500,
     622, 731, 818, 881, 924, 953, 971, 982, 989, 993, 996, 998 >>
\* round(1000 * exp(-0.05 * e)) for e = 0 .. 100
ExpTable ==
  <<
     1000, 951, 905, 861, 819, 779, 741, 705, 670, 638, 607, 577, 549, 522, 497, 472, 449, 427, 407, 387,
     368, 350, 333, 317, 301, 287, 273, 259, 247, 235, 223, 212, 202, 192, 183, 174, 165, 157, 150, 142,
     135, 129, 122, 116, 111, 105, 100, 95, 91, 86, 82, 78, 74, 71, 67, 64, 61, 58, 55, 52,
     50, 47, 45, 43, 41, 39, 37, 35, 33, 32, 30, 29, 27, 26, 25, 24, 22, 21, 20, 19,
     18, 17, 17, 16, 15, 14, 14, 13, 12, 12, 11, 11, 10, 10, 9, 9, 8, 8, 7, 7,
     7 >>
\* the logistic function on thousandths, interpolated between the table points
sigmoid(x) ==
  IF x <= -6000 THEN SigmoidTable[1]
  ELSE IF x >= 6000 THEN SigmoidTable[25]
  ELSE LET k == (x + 6000) \div 500
           lo == SigmoidTable[k + 1]
           hi == SigmoidTable[k + 2]
       IN  lo + ((hi - lo) * ((x + 6000) % 500)) \div 500

relu(x) == Max(0, x)

\* tanh(x) = 2 * sigmoid(2x) - 1
tanh(x) == 2 * sigmoid(2 * x) - 1000

leaky_relu(x) == IF x > 0 THEN x ELSE TruncDiv(x, 100)

linear(x) == x

activationFunctions(name, x) ==
  IF name = "sigmoid" THEN sigmoid(x)
  ELSE IF name = "relu" THEN relu(x)
  ELSE IF name = "tanh" THEN tanh(x)
  ELSE IF name = "leaky_relu" THEN leaky_relu(x)
  ELSE linear(x)

\* the layer sizes, input layer first
getNetworkArchitecture(a) ==
  IF a.networkType = "perceptron" THEN <<a.inputNodes, a.outputNodes>>
  ELSE <<a.inputNodes>> \o [k \in 1..a.hiddenLayers |-> a.nodesPerLayer] \o <<a.outputNodes>>

\* the nodes of layers from on, layer by layer; layers are numbered from 0
RECURSIVE LayerNodes(_, _, _)
LayerNodes(architecture, from, r) ==
  IF from >= Len(architecture) THEN <<>>
  ELSE [i \in 1..architecture[from + 1] |->
          [id |-> <<from, i - 1>>, layer |-> from, position |-> i - 1,
           activation |-> IF from = 0 THEN r ELSE 0,
           bias |-> IF from = 0 THEN 0 ELSE (r - 500) * 200,
           input |-> IF from = 0 THEN r ELSE 0]]
       \o LayerNodes(architecture, from + 1, r)

\* LayerConnections that connects every source node to the first node of the
\* next layer only
RECURSIVE LayerConnectionsToFirst(_, _, _)
LayerConnectionsToFirst(architecture, from, r) ==
  IF from >= Len(architecture) - 1 THEN <<>>
  ELSE [k \in 1..architecture[from + 1] |->
          [from |-> <<from, k - 1>>, to |-> <<from + 1, 0>>,
           weight |-> (r - 500) * 200, active |-> FALSE]]
       \o LayerConnectionsToFirst(architecture, from + 1, r)

\* the connections leaving layers from on: for every layer, every source
\* node, every node of the next layer
RECURSIVE LayerConnections(_, _, _)
LayerConnections(architecture, from, r) ==
  IF from >= Len(architecture) - 1 THEN <<>>
  ELSE LET next == architecture[from + 2]
       IN  [k \in 1..(architecture[from + 1] * next) |->
              [from |-> <<from, (k - 1) \div next>>, to |-> <<from + 1, (k - 1) % next>>,
               weight |-> (r - 500) * 200, active |-> FALSE]]
           \o LayerConnections(architecture, from + 1, r)

\* initializeNetwork that leaves the metrics in place
ANNInitializeNetworkKeepsMetrics(a, r) ==
  [a EXCEPT !.nodes = LayerNodes(getNetworkArchitecture(a), 0, r),
            !.connections = LayerConnections(getNetworkArchitecture(a), 0, r),
            !.currentEpoch = 0]

\* initializeNetwork of the ANN page, every random value drawn as r
ANNInitializeNetwork(a, r) ==
  [a EXCEPT !.nodes = LayerNodes(getNetworkArchitecture(a), 0, r),
            !.connections = LayerConnections(getNetworkArchitecture(a), 0, r),
            !.currentEpoch = 0,
            !.metrics = <<>>]

\* the weighted input of node n from the activations held in nodes
WeightedInput(nodes, connections, n) ==
  LET incoming == LET Into(c) == c.to = n.id IN SelectSeq(connections, Into)
      source(c) == LET Is(m) == m.id = c.from IN SelectSeq(nodes, Is)
      term(c) == IF source(c) = <<>> THEN 0
                 ELSE TruncDiv(source(c)[1].activation * c.weight, 100000)
  IN  TruncDiv(n.bias, 100) + SumSeq([k \in 1..Len(incoming) |-> term(incoming[k])])

\* a forward pass whose layers all read the activations held before the pass
ForwardFromStale(nodes, connections, fn, layer, depth) ==
  [k \in 1..Len(nodes) |->
     IF nodes[k].layer >= layer /\ nodes[k].layer < depth
     THEN [nodes[k] EXCEPT !.activation =
             activationFunctions(fn, WeightedInput(nodes, connections, nodes[k]))]
     ELSE nodes[k]]

\* the forward pass from layer on, each layer reading the activations the
\* pass has already written for the layer before it
RECURSIVE ForwardFrom(_, _, _, _, _)
ForwardFrom(nodes, connections, fn, layer, depth) ==
  IF layer >= depth THEN nodes
  ELSE ForwardFrom([k \in 1..Len(nodes) |->
                      IF nodes[k].layer = layer
                      THEN [nodes[k] EXCEPT !.activation =
                              activationFunctions(fn, WeightedInput(nodes, connections, nodes[k]))]
                      ELSE nodes[k]],
                   connections, fn, layer + 1, depth)

\* performForwardPass; r is what Math.random() returns
performForwardPass(a, r) ==
  LET inputsSet == [k \in 1..Len(a.nodes) |->
                      IF a.nodes[k].layer = 0
                      THEN [a.nodes[k] EXCEPT !.activation =
                              IF a.nodes[k].input # 0 THEN a.nodes[k].input ELSE r]
                      ELSE a.nodes[k]]
  IN  [a EXCEPT !.nodes = ForwardFrom(inputsSet, a.connections, a.activationFunction, 1,
                                      Len(getNetworkArchitecture(a))),
                !.connections = [k \in 1..Len(a.connections) |->
                                   [a.connections[k] EXCEPT !.active = r > 600]]]

\* the body of the interval callback: forward pass, weight update, one
\* metrics record, epoch counter; r is what Math.random() returns for the
\* connections, the two draws of the metrics return 0.5
ANNStep(a, r) ==
  LET f == performForwardPass(a, r)
      noise == 500
  IN  [f EXCEPT
         !.connections =
            [k \in 1..Len(f.connections) |->
               [f.connections[k] EXCEPT
                  !.weight = @ + TruncDiv((r - 500) * a.learningRate, 100),
                  !.active = r > 500]],
         !.metrics =
            Append(a.metrics,
                   [epoch |-> a.currentEpoch + 1,
                    loss |-> Max(10, 2 * ExpTable[a.currentEpoch + 1] + noise \div 10),
                    accuracy |-> Min(990, (a.currentEpoch * 800) \div a.maxEpochs + 200
                                            + noise \div 20),
                    learningRate |-> a.learningRate]),
         !.currentEpoch = a.currentEpoch + 1]

\* the effect on [currentEpoch, maxEpochs]
ANNStopEffect(a) ==
  IF a.currentEpoch >= a.maxEpochs THEN [a EXCEPT !.isTraining = FALSE] ELSE a

\* the training effect after a render: its cleanup clears the interval it
\* made, then it makes one iff isTraining && currentEpoch < maxEpochs
ANNTrainingEffect(timer, a) ==
  (IF timer > 0 THEN timer - 1 ELSE 0)
    + (IF a.isTraining /\ a.currentEpoch < a.maxEpochs THEN 1 ELSE 0)

\* the state after the mount effect ran initializeNetwork
ANNInit(r) ==
  ANNInitializeNetwork(
    [ networkType |-> "multilayer",
      hiddenLayers |-> 2,
      nodesPerLayer |-> 4,
      inputNodes |-> 3,
      outputNodes |-> 2,
      activationFunction |-> "sigmoid",
      isTraining |-> FALSE,
      currentEpoch |-> 0,
      maxEpochs |-> 100,
      learningRate |-> 10,
      trainingSpeed |-> 200,
      nodes |-> <<>>,
      connections |-> <<>>,
      metrics |-> <<>>,
      inputs |-> 0 ], r)

\* the interval callback, followed by the effects of the render it causes
ANNTickUpTo(maxTicks) ==
  /\ page = "ann"
  /\ annTimer > 0
  /\ ann.currentEpoch < maxTicks
  /\ \E r \in TickDraws : ann' = ANNStopEffect(ANNStep(ann, r))
  /\ annTimer' = ANNTrainingEffect(annTimer, ann')
  /\ UNCHANGED <<page, bnn, bnnTimer, brain, brainTimers, ml, mlTimer>>

ANNTick == ANNTickUpTo(MaxEpochTicks)

\* the same callback over the first epochs only
ANNForwardTick == ANNTickUpTo(MaxForwardTicks)

\* the Train/Pause button, disabled while currentEpoch >= maxEpochs
ANNToggle ==
  /\ page = "ann"
  /\ ann.currentEpoch < ann.maxEpochs
  /\ ann' = [ann EXCEPT !.isTraining = ~ann.isTraining]
  /\ annTimer' = ANNTrainingEffect(annTimer, ann')
  /\ UNCHANGED <<page, bnn, bnnTimer, brain, brainTimers, ml, mlTimer>>

\* what resetSimulation sets
ANNResetState(a, r) == ANNInitializeNetwork([a EXCEPT !.isTraining = FALSE], r)

ANNReset ==
  /\ page = "ann"
  /\ \E r \in InitDraws : ann' = ANNStopEffect(ANNResetState(ann, r))
  /\ annTimer' = ANNTrainingEffect(annTimer, ann')
  /\ UNCHANGED <<page, bnn, bnnTimer, brain, brainTimers, ml, mlTimer>>

\* a control changed the architecture: the effect on [initializeNetwork]
\* builds the network again
Rebuilt(a, r) == ANNStopEffect(ANNInitializeNetwork([a EXCEPT !.inputs = @ + 1], r))

\* the controls are disabled while training
ANNCanConfigure == page = "ann" /\ ~ann.isTraining /\ ann.inputs < MaxANNInputs

ANNSetNetworkType ==
  /\ ANNCanConfigure
  /\ \E v \in NetworkTypes \ {ann.networkType}, r \in InitDraws :
       ann' = Rebuilt([ann EXCEPT !.networkType = v], r)
  /\ annTimer' = ANNTrainingEffect(annTimer, ann')
  /\ UNCHANGED <<page, bnn, bnnTimer, brain, brainTimers, ml, mlTimer>>

ANNSetInputNodes ==
  /\ ANNCanConfigure
  /\ \E v \in InputNodeCounts \ {ann.inputNodes}, r \in InitDraws :
       ann' = Rebuilt([ann EXCEPT !.inputNodes = v], r)
  /\ annTimer' = ANNTrainingEffect(annTimer, ann')
  /\ UNCHANGED <<page, bnn, bnnTimer, brain, brainTimers, ml, mlTimer>>

\* shown for the multilayer network only
ANNSetHiddenLayers ==
  /\ ANNCanConfigure
  /\ ann.networkType = "multilayer"
  /\ \E v \in HiddenLayerCounts \ {ann.hiddenLayers}, r \in InitDraws :
       ann' = Rebuilt([ann EXCEPT !.hiddenLayers = v], r)
  /\ annTimer' = ANNTrainingEffect(annTimer, ann')
  /\ UNCHANGED <<page, bnn, bnnTimer, brain, brainTimers, ml, mlTimer>>

\* shown for the multilayer network only
ANNSetNodesPerLayer ==
  /\ ANNCanConfigure
  /\ ann.networkType = "multilayer"
  /\ \E v \in NodesPerLayerCounts \ {ann.nodesPerLayer}, r \in InitDraws :
       ann' = Rebuilt([ann EXCEPT !.nodesPerLayer = v], r)
  /\ annTimer' = ANNTrainingEffect(annTimer, ann')
  /\ UNCHANGED <<page, bnn, bnnTimer, brain, brainTimers, ml, mlTimer>>

ANNSetOutputNodes ==
  /\ ANNCanConfigure
  /\ \E v \in OutputNodeCounts \ {ann.outputNodes}, r \in InitDraws :
       ann' = Rebuilt([ann EXCEPT !.outputNodes = v], r)
  /\ annTimer' = ANNTrainingEffect(annTimer, ann')
  /\ UNCHANGED <<page, bnn, bnnTimer, brain, brainTimers, ml, mlTimer>>

ANNSetActivation ==
  /\ ANNCanConfigure
  /\ \E v \in ActivationNames \ {ann.activationFunction} :
       ann' = [ann EXCEPT !.activationFunction = v, !.inputs = @ + 1]
  /\ annTimer' = ANNTrainingEffect(annTimer, ann')
  /\ UNCHANGED <<page, bnn, bnnTimer, brain, brainTimers, ml, mlTimer>>

ANNSetLearningRate ==
  /\ ANNCanConfigure
  /\ \E v \in ANNLearningRates \ {ann.learningRate} :
       ann' = [ann EXCEPT !.learningRate = v, !.inputs = @ + 1]
  /\ annTimer' = ANNTrainingEffect(annTimer, ann')
  /\ UNCHANGED <<page, bnn, bnnTimer, brain, brainTimers, ml, mlTimer>>

ANNSetMaxEpochs ==
  /\ ANNCanConfigure
  /\ \E v \in EpochCeilings \ {ann.maxEpochs} :
       ann' = ANNStopEffect([ann EXCEPT !.maxEpochs = v, !.inputs = @ + 1])
  /\ annTimer' = ANNTrainingEffect(annTimer, ann')
  /\ UNCHANGED <<page, bnn, bnnTimer, brain, brainTimers, ml, mlTimer>>

ANNSetTrainingSpeed ==
  /\ ANNCanConfigure
  /\ \E v \in TrainingSpeeds \ {ann.trainingSpeed} :
       ann' = [ann EXCEPT !.trainingSpeed = v, !.inputs = @ + 1]
  /\ annTimer' = ANNTrainingEffect(annTimer, ann')
  /\ UNCHANGED <<page, bnn, bnnTimer, brain, brainTimers, ml, mlTimer>>

NextANN ==
  \/ ANNTick \/ ANNToggle \/ ANNReset \/ ANNSetNetworkType \/ ANNSetInputNodes
  \/ ANNSetHiddenLayers \/ ANNSetNodesPerLayer \/ ANNSetOutputNodes \/ ANNSetActivation
  \/ ANNSetLearningRate \/ ANNSetMaxEpochs \/ ANNSetTrainingSpeed

Init ==
  /\ page \in Pages
  /\ bnn = BNNInit
  /\ bnnTimer = 0
  /\ brain = BrainInit
  /\ brainTimers = NoBrainTimers
  /\ ml = MLInit
  /\ mlTimer = 0
  /\ ann \in {ANNInit(r) : r \in IF page = "ann" THEN InitDraws ELSE {250}}
  /\ annTimer = 0

InitML == Init /\ page = "ml"

SpecML == InitML /\ [][NextML]_vars

InitANN == Init /\ page = "ann"

SpecANN == InitANN /\ [][NextANN]_vars

\* initializeNetwork draws every input, bias and weight independently: the
\* nodes at odd positions and every second connection take the draw r2
ANNRedraw(a, r2) ==
  [a EXCEPT
     !.nodes = [k \in 1..Len(a.nodes) |->
                  IF a.nodes[k].position % 2 = 0 THEN a.nodes[k]
                  ELSE IF a.nodes[k].layer = 0
                  THEN [a.nodes[k] EXCEPT !.activation = r2, !.input = r2]
                  ELSE [a.nodes[k] EXCEPT !.bias = (r2 - 500) * 200]],
     !.connections = [k \in 1..Len(a.connections) |->
                        IF k % 2 = 1 THEN a.connections[k]
                        ELSE [a.connections[k] EXCEPT !.weight = (r2 - 500) * 200]]]

\* the networks the page holds once the architecture controls and the
\* activation select have been set and the network has been built
ANNConfigured ==
  {ANNRedraw(ANNInitializeNetwork([ANNInit(r1) EXCEPT !.networkType = t,
                                                      !.inputNodes = i,
                                                      !.hiddenLayers = h,
                                                      !.nodesPerLayer = n,
                                                      !.outputNodes = o,
                                                      !.activationFunction = f], r1), r2) :
     t \in NetworkTypes, i \in InputNodeCounts, h \in HiddenLayerCounts,
     n \in NodesPerLayerCounts, o \in OutputNodeCounts, f \in ActivationNames,
     r1 \in InitDraws, r2 \in InitDraws}

InitForward ==
  /\ page = "ann"
  /\ bnn = BNNInit
  /\ bnnTimer = 0
  /\ brain = BrainInit
  /\ brainTimers = NoBrainTimers
  /\ ml = MLInit
  /\ mlTimer = 0
  /\ ann \in ANNConfigured
  /\ annTimer = 0

NextForward == ANNForwardTick \/ ANNToggle

SpecForward == InitForward /\ [][NextForward]_vars

\* the ML page once the cnn algorithm has been selected
InitDigit ==
  /\ page = "ml"
  /\ bnn = BNNInit
  /\ bnnTimer = 0
  /\ brain = BrainInit
  /\ brainTimers = NoBrainTimers
  /\ ml = AlgorithmEffect([MLInit EXCEPT !.selectedAlgorithm = "cnn"])
  /\ mlTimer = 0
  /\ ann = ANNInit(250)
  /\ annTimer = 0

NextDigit == MLStartDrawing \/ MLDraw \/ MLStopDrawing \/ MLClearCanvas

SpecDigit == InitDigit /\ [][NextDigit]_vars

\* labeled points for the tree builder: two places, three labels
TreePoints ==
  << [x |-> 3200, y |-> 2500, label |-> 0], [x |-> 3700, y |-> 2100, label |-> 1],
     [x |-> 3500, y |-> 2900, label |-> 2], [x |-> 6500, y |-> 7500, label |-> 0],
     [x |-> 6200, y |-> 7100, label |-> 1], [x |-> 6900, y |-> 7900, label |-> 2] >>

\* the datasets of 5 and 6 of these points, listed in the order of TreePoints
TreeDatasets ==
  UNION {{[k \in 1..n |-> TreePoints[f[k]]] :
            f \in {g \in [1..n -> 1..Len(TreePoints)] :
                     \A k \in 1..(n - 1) : g[k] <= g[k + 1]}} : n \in {MinSplit, MinSplit + 1}}

\* the ML page with the forest algorithm selected, holding a dataset, the
\* iteration ceiling at the slider's minimum
InitTree ==
  /\ page = "ml"
  /\ bnn = BNNInit
  /\ bnnTimer = 0
  /\ brain = BrainInit
  /\ brainTimers = NoBrainTimers
  /\ ml \in {[AlgorithmEffect([MLInit EXCEPT !.selectedAlgorithm = "forest"]) EXCEPT
                !.dataPoints = data, !.maxIterations = 10] : data \in TreeDatasets}
  /\ mlTimer = 0
  /\ ann = ANNInit(250)
  /\ annTimer = 0

NextTree == MLTick \/ MLToggle

SpecTree == InitTree /\ [][NextTree]_vars

\* learning rates of the slider (0.001 .. 0.1 in steps of 0.001), in thousandths
DescentRates == {1, 10, 20, 35}

\* the ML page with linear regression selected, the learning rate set and the
\* iteration ceiling at the slider's minimum
DescentConfigured ==
  {[MLInit EXCEPT !.learningRate = lr, !.maxIterations = 10] : lr \in DescentRates}

InitDescent ==
  /\ page = "ml"
  /\ bnn = BNNInit
  /\ bnnTimer = 0
  /\ brain = BrainInit
  /\ brainTimers = NoBrainTimers
  /\ ml \in DescentConfigured
  /\ mlTimer = 0
  /\ ann = ANNInit(250)
  /\ annTimer = 0

NextDescent == MLTick \/ MLToggle \/ MLReset

SpecDescent == InitDescent /\ [][NextDescent]_vars

InitTraining == Init /\ page \in {"ml", "ann"}

SpecTraining == InitTraining /\ [][NextML \/ NextANN]_vars

InitBNN == Init /\ page = "bnn"

InitBrain == Init /\ page = "brain"

SpecBrain == InitBrain /\ [][NextBrain]_vars

SpecBNN == InitBNN /\ [][NextBNN]_vars

SpecBNNQuiet == InitBNN /\ [][NextBNNQuiet]_vars

\* the runs in which transient signals complete their travel: the BNN at a
\* speed set before the start, over MaxTimeLong; the brain page with
\* SignalFrames animation frames between two ticks
LongSpeeds == {2 * TimeScale, 3 * TimeScale}

SignalFunctions == {"visual", "auditory", "motor"}

InitSignals ==
  /\ page \in {"bnn", "brain"}
  /\ \E v \in LongSpeeds :
       bnn = IF page = "bnn" THEN [BNNInit EXCEPT !.simulationSpeed = v] ELSE BNNInit
  /\ bnnTimer = 0
  /\ \E f \in SignalFunctions, v \in ProcSpeeds :
       brain = IF page = "brain"
               THEN [BrainInit EXCEPT !.selectedFunction = f, !.processingSpeed = v]
               ELSE BrainInit
  /\ brainTimers = NoBrainTimers
  /\ ml = MLInit
  /\ mlTimer = 0
  /\ ann = ANNInit(250)
  /\ annTimer = 0

BrainSignalTick == BrainTickAfter(SignalFrames)

BrainSignalFrame == BrainFrameUpTo(SignalFrames)

NextSignals == BNNTickLong \/ BNNToggle \/ BrainSignalTick \/ BrainSignalFrame \/ BrainToggle

SpecSignals == InitSignals /\ [][NextSignals]_vars

\* the same runs under the scheduling of the page: a live interval keeps
\* calling its callback and a live animation loop keeps requesting frames
NextSignalsFair ==
  BNNTickFair \/ BNNToggle \/ BrainSignalTick \/ BrainSignalFrame \/ BrainToggle

SpecSignalsFair ==
  InitSignals /\ [][NextSignalsFair]_vars
    /\ WF_vars(BNNTickFair) /\ WF_vars(BrainSignalTick) /\ WF_vars(BrainSignalFrame)

\* the runs in which stimuli reach the age of the cleanup
AgingSpeed == CHOOSE v \in ProcSpeeds : \A w \in ProcSpeeds : w <= v

InitAging ==
  /\ page = "brain"
  /\ bnn = BNNInit
  /\ bnnTimer = 0
  /\ \E f \in SignalFunctions :
       brain = [BrainInit EXCEPT !.selectedFunction = f, !.processingSpeed = AgingSpeed]
  /\ brainTimers = NoBrainTimers
  /\ ml = MLInit
  /\ mlTimer = 0
  /\ ann = ANNInit(250)
  /\ annTimer = 0

NextAging == BrainAgingTick \/ BrainFrame \/ BrainToggle

SpecAging == InitAging /\ [][NextAging]_vars

Next == NextBNN \/ NextBrain \/ NextML \/ NextANN

Spec == Init /\ [][Next]_vars

(***************************************************************************)
(* Claims                                                                  *)
(***************************************************************************)

\* C1: BNN: in every reachable state every neuron's currentPotential lies
\* between the resting potential -70 and the peak 40.
C1_PotentialInRange ==
  page = "bnn" =>
    \A i \in NeuronIds :
      /\ bnn.neurons[i].currentPotential >= RestingPotential * PotScale
      /\ bnn.neurons[i].currentPotential <= Peak * PotScale

\* C9: BNN: from the initial state, as long as no stimulation kick has been
\* applied (stimulation intensity 0 admits none), no neuron fires, no action
\* potential exists and every potential stays below the threshold.
C9_NoFiringAtRest ==
  (page = "bnn" /\ bnn.kicks = 0) =>
    /\ bnn.actionPotentials = <<>>
    /\ \A i \in NeuronIds :
         /\ ~bnn.neurons[i].isActive
         /\ bnn.neurons[i].lastSpikeTime = 0
         /\ bnn.neurons[i].currentPotential < bnn.neurons[i].threshold

\* C9 witness: intensity 0, no kick so far, the refractory interval has passed
\* and noise has pushed a neuron as high as it gets, 10 mV above rest.
C9_Witness ==
  /\ page = "bnn"
  /\ bnn.kicks = 0
  /\ bnn.stimulationIntensity = 0
  /\ bnn.currentTime > Refractory * TimeScale
  /\ \E i \in NeuronIds :
       bnn.neurons[i].currentPotential = (RestingPotential + 10) * PotScale

\* a neuron fires in this step
FiresInStep(i) ==
  /\ bnn'.neurons[i].isActive
  /\ bnn'.neurons[i].lastSpikeTime # bnn.neurons[i].lastSpikeTime

\* C10: BNN: a neuron fires only more than 50 simulated-time units after its
\* previous firing (its lastSpikeTime).
C10_RefractoryGap ==
  [][\A i \in NeuronIds :
       FiresInStep(i) =>
         bnn.currentTime - bnn.neurons[i].lastSpikeTime > Refractory * TimeScale]_vars

\* C10 witness: two action potentials of one neuron are in the store, the
\* second started more than 50 units after the first.
C10_Witness ==
  /\ page = "bnn"
  /\ \E j, k \in 1..Len(bnn.actionPotentials) :
       /\ bnn.actionPotentials[j].neuronId = bnn.actionPotentials[k].neuronId
       /\ bnn.actionPotentials[k].startTime - bnn.actionPotentials[j].startTime
            > Refractory * TimeScale

\* C2: in every reachable state of the brain page every region's activity is
\* between 0 and 1 (0 and 1000 thousandths), whatever stimuli are spawned and
\* processed, whatever decays and whenever the simulation is reset
C2_ActivityInRange ==
  \A r \in RegionIds : 0 <= brain.brainRegions[r] /\ brain.brainRegions[r] <= 1000

\* a region that a boost saturated at 1 in the last tick, after that tick's decay
C2_Witness ==
  /\ page = "brain"
  /\ \E r \in RegionIds : brain.brainRegions[r] = 1000 - DecayStep

\* C8: no step runs the callback of a timeout that was scheduled before the
\* last pause or reset and changes the simulation state with it
C8_NoStaleCallback ==
  [][~(brainTimers'.stale < brainTimers.stale /\ brain' # brain)]_vars

\* the state the ML algorithms keep between ticks
MLAlgState(m) ==
  <<m.iterations, m.dataPoints, m.linearRegression, m.backpropSteps,
    m.currentBackpropStep, m.decisionTree, m.cnnLayers>>

\* the network the ANN page keeps between ticks
ANNNetState(a) == <<a.currentEpoch, a.nodes, a.connections, a.metrics>>

\* the settings getNetworkArchitecture reads
ANNArchitectureSettings(a) ==
  <<a.networkType, a.hiddenLayers, a.nodesPerLayer, a.inputNodes, a.outputNodes>>

\* a step of the ML page that is a reset or an algorithm selection
MLReinitialised == ml'.resets # ml.resets \/ ml'.selectedAlgorithm # ml.selectedAlgorithm

\* a step of the ANN page that is a reset or a change of the architecture
ANNReinitialised ==
  \/ \E r \in InitDraws : ann' = ANNStopEffect(ANNResetState(ann, r))
  \/ ANNArchitectureSettings(ann') # ANNArchitectureSettings(ann)

\* C3: the iteration counter of the ML page and the epoch counter of the ANN
\* page go up by exactly one in every tick executed while running below the
\* ceiling, go down only in a reset or re-initialisation, and once the counter
\* is at or above its ceiling no step other than a reset or re-initialisation
\* changes the counter or the algorithm or network state
C3_CounterSteps ==
  [][ /\ ml'.iterations \in {ml.iterations, ml.iterations + 1, 0}
      /\ ml'.iterations = ml.iterations + 1
           => ml.isRunning /\ ml.iterations < ml.maxIterations
      /\ ml.isRunning /\ ml' # ml /\ ml' # [ml EXCEPT !.isRunning = FALSE]
           /\ ml'.resets = ml.resets
           => ml'.iterations = ml.iterations + 1
      /\ ml'.iterations < ml.iterations => MLReinitialised
      /\ ml.iterations >= ml.maxIterations
           => MLAlgState(ml') = MLAlgState(ml) \/ MLReinitialised
      /\ ann'.currentEpoch \in {ann.currentEpoch, ann.currentEpoch + 1, 0}
      /\ ann'.currentEpoch = ann.currentEpoch + 1
           => ann.isTraining /\ ann.currentEpoch < ann.maxEpochs
      /\ ann.isTraining /\ ann' # ann /\ ann' # [ann EXCEPT !.isTraining = FALSE]
           /\ ~ANNReinitialised
           => ann'.currentEpoch = ann.currentEpoch + 1
      /\ ann'.currentEpoch < ann.currentEpoch => ANNReinitialised
      /\ ann.currentEpoch >= ann.maxEpochs
           => ANNNetState(ann') = ANNNetState(ann) \/ ANNReinitialised ]_vars

\* the epoch counter was driven to its ceiling by training ticks
C3_Witness ==
  /\ page = "ann"
  /\ ann.currentEpoch = ann.maxEpochs
  /\ Len(ann.metrics) = ann.maxEpochs

\* C4: whenever the counter of the ML or the ANN page is at or above its
\* ceiling the running flag is false, and no step that changes the counter
\* turns the flag from false to true
C4_StoppedAtCeiling ==
  [][ /\ ml.iterations >= ml.maxIterations => ~ml.isRunning
      /\ ml'.iterations >= ml'.maxIterations => ~ml'.isRunning
      /\ ml'.iterations # ml.iterations /\ ml'.isRunning => ml.isRunning
      /\ ann.currentEpoch >= ann.maxEpochs => ~ann.isTraining
      /\ ann'.currentEpoch >= ann'.maxEpochs => ~ann'.isTraining
      /\ ann'.currentEpoch # ann.currentEpoch /\ ann'.isTraining => ann.isTraining ]_vars

\* the iteration counter was driven to its ceiling by ticks and the run stopped
C4_Witness ==
  /\ page = "ml"
  /\ ml.iterations = ml.maxIterations
  /\ ml.linearRegression.iteration = ml.maxIterations
  /\ ~ml.isRunning

\* what a paused BNN tick would change
BNNEntities(b) == <<b.neurons, b.synapses, b.actionPotentials, b.currentTime>>

\* what a paused brain tick would change
BrainEntities(b) ==
  <<b.brainRegions, b.visualStimuli, b.audioStimuli, b.motorCommands, b.currentTime,
    b.processingStats, b.spikes>>

\* C5: in each of the four simulations at most one interval is live, one is
\* live exactly while the simulation runs (for the ANN: trains below the
\* ceiling), and a step taken while the running flag is false changes no
\* simulated time, counter or entity unless it is a reset or re-initialisation
C5_TicksOnlyWhileRunning ==
  [][ /\ bnnTimer' <= 1 /\ brainTimers'.interval <= 1 /\ mlTimer' <= 1 /\ annTimer' <= 1
      /\ bnnTimer' = 1 <=> bnn'.isRunning
      /\ brainTimers'.interval = 1 <=> brain'.isRunning
      /\ mlTimer' = 1 <=> ml'.isRunning
      /\ annTimer' = 1 <=> ann'.isTraining /\ ann'.currentEpoch < ann'.maxEpochs
      /\ ~bnn.isRunning
           => BNNEntities(bnn') = BNNEntities(bnn) \/ bnn' = BNNResetState(bnn)
      /\ ~brain.isRunning
           => BrainEntities(brain') = BrainEntities(brain) \/ brain' = BrainResetState(brain)
      /\ ~ml.isRunning => MLAlgState(ml') = MLAlgState(ml) \/ MLReinitialised
      /\ ~ann.isTraining => ANNNetState(ann') = ANNNetState(ann) \/ ANNReinitialised ]_vars

\* the brain simulation ticking again after a pause or reset that left a
\* timeout behind
C5_Witness ==
  /\ page = "brain"
  /\ brain.isRunning
  /\ brainTimers.interval = 1
  /\ brainTimers.stale > 0
  /\ brain.currentTime > 0

\* the node count of an architecture: the sum of the layer sizes
NodeCount(architecture) == SumSeq(architecture)

\* the connection count: the sum of the products of adjacent layer sizes
ConnectionCount(architecture) ==
  SumSeq([k \in 1..(Len(architecture) - 1) |-> architecture[k] * architecture[k + 1]])

BNNCanonical(b) ==
  /\ ~b.isRunning
  /\ b.currentTime = 0
  /\ b.actionPotentials = <<>>
  /\ Cardinality(DOMAIN b.neurons) = 12
  /\ Len(b.synapses) = 24

BrainCanonical(b) ==
  /\ ~b.isRunning
  /\ b.currentTime = 0
  /\ b.visualStimuli = <<>> /\ b.audioStimuli = <<>> /\ b.motorCommands = <<>>
  /\ b.spikes = <<>>
  /\ b.cognitiveTask = NoTask
  /\ Cardinality(DOMAIN b.brainRegions) = 12
  /\ \A r \in DOMAIN b.brainRegions : b.brainRegions[r] = 0

ANNCanonical(a) ==
  /\ ~a.isTraining
  /\ a.currentEpoch = 0
  /\ a.metrics = <<>>
  /\ Len(a.nodes) = NodeCount(getNetworkArchitecture(a))
  /\ Len(a.connections) = ConnectionCount(getNetworkArchitecture(a))

\* the fields of the ANN snapshot that do not depend on a random draw
ANNSnapshot(a) ==
  <<a.isTraining, a.currentEpoch, a.metrics, Len(a.nodes), Len(a.connections)>>

\* C6: from every reachable state of the BNN, brain and ANN pages a reset
\* yields the canonical initial snapshot, and a second reset yields it again
C6_ResetCanonical ==
  /\ page = "bnn" =>
       /\ BNNCanonical(BNNResetState(bnn))
       /\ BNNResetState(BNNResetState(bnn)) = BNNResetState(bnn)
  /\ page = "brain" =>
       /\ BrainCanonical(BrainResetState(brain))
       /\ BrainResetState(BrainResetState(brain)) = BrainResetState(brain)
  /\ page = "ann" =>
       \A r \in InitDraws :
         LET once == ANNResetState(ann, r)
         IN  /\ ANNCanonical(once)
             /\ \A q \in InitDraws :
                  ANNSnapshot(ANNResetState(once, q)) = ANNSnapshot(once)

\* the brain page right after a reset that followed cognitive processing
C6_Witness ==
  /\ page = "brain"
  /\ brainTimers.stale > 0
  /\ brain.currentTime = 0
  /\ brain = BrainResetState(brain)

\* the points generateData draws for an algorithm from the fixed seed
FreshData(alg) ==
  generateData([MLInit EXCEPT !.selectedAlgorithm = alg, !.seedValue = SeedBase]).dataPoints

\* C7: in every reachable state of the ML page the sample points are the ones
\* drawn from the fixed seed for the selected algorithm, a reset produces
\* those points and the slope and intercept of the first two seeded draws, and
\* a regression that has not iterated holds that slope and intercept
C7_SeededReset ==
  LET r == MLResetState(ml)
  IN  /\ r.dataPoints = FreshData(ml.selectedAlgorithm)
      /\ r.linearRegression.slope = Random(SeedBase) - 500
      /\ r.linearRegression.intercept = Random(SeedBase + 1) - 500
      /\ ml.dataPoints = FreshData(ml.selectedAlgorithm)
      /\ ml.linearRegression.iteration = 0
           => /\ ml.linearRegression.slope = Random(SeedBase) - 500
              /\ ml.linearRegression.intercept = Random(SeedBase + 1) - 500

\* the ML page iterating again after its second reset, another algorithm selected
C7_Witness ==
  /\ page = "ml"
  /\ ml.resets >= 2
  /\ ml.selectedAlgorithm = "forest"
  /\ ml.iterations > 0
  /\ ml.decisionTree # NoTree


\* the action potentials in the store after this step that neuron i started in it
StartedInStep(i) ==
  {k \in 1..Len(bnn'.actionPotentials) :
     /\ bnn'.actionPotentials[k].neuronId = i
     /\ bnn'.actionPotentials[k].startTime = bnn.currentTime
     /\ bnn'.actionPotentials[k].position = 0}

\* C11 as stated: BNN: each firing of a neuron sets its potential to the peak
\* 40 and adds one action potential per axon terminal (two per firing), each
\* with position 0 and start time equal to the current simulated time.
C11_OnePerTerminal ==
  [][\A i \in NeuronIds :
       FiresInStep(i) =>
         /\ bnn'.neurons[i].currentPotential = Peak * PotScale
         /\ Cardinality(StartedInStep(i)) = NumTerminals]_vars

\* C11 amended: BNN: each firing of a neuron sets its potential to the peak 40
\* and adds exactly one action potential to the store, whatever the number of
\* its terminals, with position 0 and start time equal to the current
\* simulated time; a neuron that does not fire adds none.
C11_OnePerFiring ==
  [][\A i \in NeuronIds :
       /\ FiresInStep(i) =>
            /\ bnn'.neurons[i].currentPotential = Peak * PotScale
            /\ Cardinality(StartedInStep(i)) = 1
       /\ (page = "bnn" /\ bnn'.currentTime > bnn.currentTime /\ ~FiresInStep(i)) =>
            StartedInStep(i) = {}]_vars

\* C11 witness: a neuron has just fired: it is active at the peak and its
\* action potential, started at its lastSpikeTime, is at position 0.
C11_Witness ==
  /\ page = "bnn"
  /\ \E i \in NeuronIds :
       /\ bnn.neurons[i].isActive
       /\ bnn.neurons[i].currentPotential = Peak * PotScale
       /\ bnn.neurons[i].lastSpikeTime > 0
       /\ \E k \in 1..Len(bnn.actionPotentials) :
            /\ bnn.actionPotentials[k].neuronId = i
            /\ bnn.actionPotentials[k].startTime = bnn.neurons[i].lastSpikeTime
            /\ bnn.actionPotentials[k].position = 0
            /\ Cardinality(DOMAIN bnn.neurons[i].terminals) = NumTerminals

\* the interval callback of the BNN page runs in this step
BNNTicks == page = "bnn" /\ bnn'.currentTime > bnn.currentTime

\* the refractory interval of neuron i has passed at this step's time
PastRefractory(i) ==
  bnn.currentTime - bnn.neurons[i].lastSpikeTime > Refractory * TimeScale

\* C12 as stated: BNN: whether a neuron fires in a tick is decided from its
\* potential as stored at the end of the previous tick: it fires iff that
\* stored potential exceeds the threshold and the refractory interval has
\* passed.
C12_DecidedOnStored ==
  [][BNNTicks =>
       \A i \in NeuronIds :
         FiresInStep(i) <=>
           (bnn.neurons[i].currentPotential > bnn.neurons[i].threshold /\ PastRefractory(i))]_vars

\* C12 amended: BNN: whether a neuron fires in a tick is decided from the
\* potential obtained by applying that tick's decay, noise and stimulation
\* kick to the neuron's own potential as stored at the end of the previous
\* tick: it fires iff that updated potential exceeds the threshold and the
\* refractory interval has passed; a neuron that does not fire stores the
\* updated potential.
C12_DecidedOnUpdated ==
  [][BNNTicks =>
       \A i \in NeuronIds :
         LET n == bnn.neurons[i]
             updated == {NewPotential(n, nz, k) : nz \in Noise, k \in BOOLEAN}
         IN  /\ FiresInStep(i) =>
                  /\ PastRefractory(i)
                  /\ \E p \in updated : p > n.threshold
             /\ ~FiresInStep(i) =>
                  /\ bnn'.neurons[i].currentPotential \in updated
                  /\ ~(bnn'.neurons[i].currentPotential > n.threshold /\ PastRefractory(i))]_vars

\* C12 witness: a neuron has fired on a tick that follows one on which its
\* refractory interval had already passed (ticks are at most the largest
\* speed apart): not having fired then, its stored potential was at or below
\* the threshold when the firing was decided.
C12_Witness ==
  /\ page = "bnn"
  /\ bnn.kicks = 1
  /\ \E i \in NeuronIds :
       /\ bnn.neurons[i].isActive
       /\ bnn.neurons[i].lastSpikeTime - 3 * TimeScale > Refractory * TimeScale

\* C13: BNN: a synapse is active only if an action potential of its
\* presynaptic neuron activated it (which sets lastActivation to the time of
\* a tick after a firing, hence above 0) within the preceding 20 simulated-time
\* units (counted to the time of the last tick, at most one largest speed step
\* before currentTime); no synapse is active while no neuron has fired.
C13_ActiveOnlyAfterArrival ==
  page = "bnn" =>
    \A k \in 1..Len(bnn.synapses) :
      bnn.synapses[k].isActive =>
        /\ bnn.synapses[k].lastActivation > 0
        /\ bnn.neurons[bnn.synapses[k].preNeuronId].lastSpikeTime > 0
        /\ bnn.currentTime - bnn.synapses[k].lastActivation
             < (SynActive + 3) * TimeScale

\* the activation a node of nodes carries, 0 if there is no such node
ActivationOf(nodes, id) ==
  LET hits == {k \in 1..Len(nodes) : nodes[k].id = id}
  IN  IF hits = {} THEN 0 ELSE nodes[CHOOSE k \in hits : TRUE].activation

\* sum over the first m connections that enter node id of source activation
\* times weight, in thousandths
RECURSIVE IncomingSum(_, _, _, _)
IncomingSum(nodes, connections, id, m) ==
  IF m = 0 THEN 0
  ELSE IncomingSum(nodes, connections, id, m - 1)
         + (IF connections[m].to = id
            THEN TruncDiv(ActivationOf(nodes, connections[m].from) * connections[m].weight,
                          100000)
            ELSE 0)

\* the interval callback of the ANN page, hence a forward pass, runs in this step
ANNTicks == page = "ann" /\ ann'.currentEpoch = ann.currentEpoch + 1

\* C14: ANN: after a forward pass every node of a layer above 0 has the
\* activation f(bias + sum over its incoming connections of source activation
\* times weight), f the selected activation function, the source activations
\* being those the same pass left in the layer below and the weights those
\* the pass read; for the architecture [2,1] with sigmoid the output is
\* sigmoid(w1*a1 + w2*a2 + bias).
C14_ForwardPass ==
  [][ANNTicks =>
       /\ \A k \in 1..Len(ann'.nodes) :
            ann'.nodes[k].layer > 0 =>
              ann'.nodes[k].activation =
                activationFunctions(ann.activationFunction,
                                    TruncDiv(ann'.nodes[k].bias, 100)
                                      + IncomingSum(ann'.nodes, ann.connections,
                                                    ann'.nodes[k].id, Len(ann.connections)))
       /\ (getNetworkArchitecture(ann) = <<2, 1>> /\ ann.activationFunction = "sigmoid") =>
            ann'.nodes[3].activation =
              sigmoid(TruncDiv(ann.connections[1].weight * ann'.nodes[1].activation, 100000)
                        + TruncDiv(ann.connections[2].weight * ann'.nodes[2].activation, 100000)
                        + TruncDiv(ann.nodes[3].bias, 100))]_vars

\* C14 witness: a perceptron [2,1] with sigmoid has made a forward pass from
\* two different inputs over two different weights, and its output is neither
\* the initial 0 nor sigmoid(0).
C14_Witness ==
  /\ page = "ann"
  /\ ann.currentEpoch > 0
  /\ getNetworkArchitecture(ann) = <<2, 1>>
  /\ ann.activationFunction = "sigmoid"
  /\ ann.nodes[1].activation # ann.nodes[2].activation
  /\ ann.connections[1].weight # ann.connections[2].weight
  /\ ann.nodes[3].activation \notin {0, 500}

\* the interval callback of the ML page completes an iteration in this step
MLTicks == page = "ml" /\ ml'.iterations = ml.iterations + 1

\* the prediction error of the line (slope, intercept) at point p
PredictionError(slope, intercept, p) == FixMul(slope, p.x) + intercept - p.y

\* C15: linear regression: one iteration maps (slope, intercept) to
\* (slope - lr*(2/n)*SUM(e_i*x_i), intercept - lr*(2/n)*SUM(e_i)) with
\* e_i = slope*x_i + intercept - y_i taken from the parameters before the
\* iteration for both updates, and records cost = (1/n)*SUM(e_i^2) and
\* previousCost = the cost recorded by the iteration before.
C15_GradientStep ==
  [][(MLTicks /\ ml.selectedAlgorithm = "linear" /\ Len(ml.dataPoints) > 0) =>
       LET old == ml.linearRegression
           n == Len(ml.dataPoints)
           e == [k \in 1..n |-> PredictionError(old.slope, old.intercept, ml.dataPoints[k])]
           ex == [k \in 1..n |-> FixMul(e[k], ml.dataPoints[k].x)]
           ee == [k \in 1..n |-> FixMul(e[k], e[k])]
       IN  /\ ml'.linearRegression.slope
                = old.slope - FixMul(ml.learningRate, TruncDiv(2 * SumSeq(ex), n))
           /\ ml'.linearRegression.intercept
                = old.intercept - FixMul(ml.learningRate, TruncDiv(2 * SumSeq(e), n))
           /\ ml'.linearRegression.cost = TruncDiv(SumSeq(ee), n)
           /\ ml'.linearRegression.previousCost = old.cost]_vars

\* C15 witness: linear regression has made at least two iterations; slope and
\* intercept have left their initial values and the last two costs differ.
C15_Witness ==
  /\ page = "ml"
  /\ ml.selectedAlgorithm = "linear"
  /\ ml.iterations >= 2
  /\ Len(ml.dataPoints) = LinearCount
  /\ ml.linearRegression.previousCost > 0
  /\ ml.linearRegression.cost # ml.linearRegression.previousCost
  /\ ml.linearRegression.slope # InitialRegression(ml).linearRegression.slope
  /\ ml.linearRegression.intercept # InitialRegression(ml).linearRegression.intercept

\* C16: linear regression on the fixed-seed sample set: for every learning
\* rate of the slider's range the recorded mean-squared cost does not
\* increase from one iteration to the next (beyond 0.005, which covers the
\* rounding of the fixed-point cost).
C16_CostNeverIncreases ==
  (page = "ml" /\ ml.selectedAlgorithm = "linear" /\ ml.linearRegression.iteration >= 2) =>
    ml.linearRegression.cost <= ml.linearRegression.previousCost + 5

\* C17: digit classifier: the stored prediction for the drawing on the canvas
\* has exactly 10 values, each a fraction num/den in [0,1], that sum to 1;
\* when the total intensity of the drawing is below 5 every value is 0.1.
C17_Probabilities ==
  (page = "ml" /\ ml.selectedAlgorithm = "cnn") =>
    LET p == ml.cnnLayers.fc
        g == ml.drawingData
    IN  /\ ml.cnnLayers.input = g
        /\ Len(p) = 10
        /\ \A k \in 1..Len(p) :
             /\ p[k].den > 0
             /\ p[k].den = p[1].den
             /\ 0 <= p[k].num
             /\ p[k].num <= p[k].den
        /\ SumOver([k \in 1..Len(p) |-> p[k].num], 1, Len(p)) = p[1].den
        /\ GridSum(g) < 5000 =>
             \A k \in 1..Len(p) : p[k].num = 1 /\ p[k].den = 10

\* C17 witness: a drawing of total intensity above 5 that encloses two loops
\* has been classified, and the digit 8 is the most probable.
C17_Witness ==
  /\ page = "ml"
  /\ ml.selectedAlgorithm = "cnn"
  /\ GridSum(ml.drawingData) >= 5000
  /\ countLoops(ml.drawingData) = 2
  /\ \A k \in 1..10 : ml.cnnLayers.fc[9].num >= ml.cnnLayers.fc[k].num
  /\ ml.cnnLayers.fc[9].num > ml.cnnLayers.fc[1].num

\* the number of points of data whose coordinate is below the threshold
BelowCount(data, feature, threshold) ==
  Cardinality({k \in 1..Len(data) :
                 (IF feature = "x" THEN data[k].x ELSE data[k].y) < 1000 * threshold})

\* no split on x or y at an integer threshold 1..9 leaves two non-empty parts
NoValidSplit(data) ==
  \A feature \in {"x", "y"}, threshold \in 1..9 :
    BelowCount(data, feature, threshold) \in {0, Len(data)}

\* the labels with the largest count among data
TopLabels(data) ==
  {l \in Labels(data) : \A o \in Labels(data) : LabelCount(data, l) >= LabelCount(data, o)}

\* every node of the tree holds samples, and an inner node as many as its
\* two children together
RECURSIVE NoEmptyNode(_)
NoEmptyNode(t) ==
  /\ t.samples > 0
  /\ t.feature # "leaf" =>
       /\ t.samples = t.left.samples + t.right.samples
       /\ NoEmptyNode(t.left)
       /\ NoEmptyNode(t.right)

\* C18: decision tree: on a dataset for which no candidate split (feature x
\* or y, integer threshold 1..9) gives two non-empty partitions the builder
\* returns a single leaf, without children, whose samples is the size of the
\* dataset and whose prediction is a majority label; no node of any tree it
\* builds holds an empty partition.
C18_LeafWithoutSplit ==
  (page = "ml" /\ ml.selectedAlgorithm = "forest" /\ ml.decisionTree # NoTree) =>
    /\ NoEmptyNode(ml.decisionTree)
    /\ ml.decisionTree.samples = Len(ml.dataPoints)
    /\ NoValidSplit(ml.dataPoints) =>
         /\ ml.decisionTree.feature = "leaf"
         /\ DOMAIN ml.decisionTree \cap {"left", "right"} = {}
         /\ ml.decisionTree.prediction \in TopLabels(ml.dataPoints)

\* C18 witness: a tree has been built from at least 5 points of several labels
\* that no candidate split separates.
C18_Witness ==
  /\ page = "ml"
  /\ ml.selectedAlgorithm = "forest"
  /\ ml.decisionTree # NoTree
  /\ Len(ml.dataPoints) >= MinSplit
  /\ NoValidSplit(ml.dataPoints)
  /\ Cardinality(Labels(ml.dataPoints)) > 1
  /\ ml.decisionTree.feature = "leaf"

FirstLabel(S) == CHOOSE l \in S : \A o \in S : l <= o

LastLabel(S) == CHOOSE l \in S : \A o \in S : l >= o

\* every leaf of the tree built from data predicts, of the labels with the
\* largest count among the points that reach it, the last (or the first)
RECURSIVE LeavesPredict(_, _, _)
LeavesPredict(t, data, last) ==
  IF t.feature = "leaf"
  THEN t.prediction = (IF last THEN LastLabel(TopLabels(data)) ELSE FirstLabel(TopLabels(data)))
  ELSE /\ LeavesPredict(t.left, LeftData(data, t.feature, t.threshold), last)
       /\ LeavesPredict(t.right, RightData(data, t.feature, t.threshold), last)

PendingTimeouts(t) == t.timeouts + t.stale

\* C20: at most one cognitive task is in flight (no task is set while one is
\* set), and a task that has been processed is cleared only by its own
\* auto-resolve timer: when a timeout callback runs while such a task is set,
\* every pending timeout was scheduled by the processing of that task
C20_OwnTimerOnly ==
  [][/\ brain.cognitiveTask # NoTask
          => brain'.cognitiveTask \in {brain.cognitiveTask, NoTask}
     /\ (/\ brain.cognitiveTask # NoTask
         /\ brainTimers.own > 0
         /\ PendingTimeouts(brainTimers') < PendingTimeouts(brainTimers))
          => brainTimers.own = PendingTimeouts(brainTimers)]_vars


\* the stimuli the counters of processingStats have counted
ProcessedCount(b) ==
  b.processingStats.visualProcessed + b.processingStats.audioProcessed
    + b.processingStats.motorExecuted

\* C21: Brain functions: the step that marks a visual, auditory or motor
\* stimulus processed (and counts it) boosts a region for it and spawns a
\* spike for it: a tick that counts k stimuli appends at least k spikes, the
\* spike of a cognitive task processed in the same tick not counted
C21_ProcessedWithSpike ==
  [][ProcessedCount(brain') > ProcessedCount(brain)
       => Len(brain'.spikes)
            >= Len(brain.spikes) + (ProcessedCount(brain') - ProcessedCount(brain))
                 + (IF CognitiveDue(brain.cognitiveTask, brain.currentTime) THEN 1 ELSE 0)]_vars

\* the stored action potential a neuron started at a given time, as a set
StoredAP(b, i, t) ==
  {k \in 1..Len(b.actionPotentials) :
     b.actionPotentials[k].neuronId = i /\ b.actionPotentials[k].startTime = t}

\* the steps that update the transient signals: a BNN tick, a brain animation frame
APUpdate == bnn'.currentTime > bnn.currentTime
SpikeUpdate == brainTimers'.frames = brainTimers.frames + 1

\* progress in [0,1) for every stored action potential and spike
SignalsInRange ==
  /\ \A k \in 1..Len(bnn.actionPotentials) : bnn.actionPotentials[k].position \in 0..999
  /\ \A k \in 1..Len(brain.spikes) : brain.spikes[k].t \in 0..9999

\* an update removes exactly the action potentials whose travel is complete
\* and moves every remaining one forward
APsAdvance ==
  APUpdate =>
    \A k \in 1..Len(bnn.actionPotentials) :
      LET ap == bnn.actionPotentials[k]
          kept == StoredAP(bnn', ap.neuronId, ap.startTime)
      IN  IF bnn.currentTime - ap.startTime >= APDuration * TimeScale
          THEN kept = {}
          ELSE \E j \in kept : bnn'.actionPotentials[j].position > ap.position

\* a frame removes exactly the spikes whose progress reaches 1, keeps the
\* others in order and moves each of them forward
SpikesAdvance ==
  SpikeUpdate =>
    LET old == brain.spikes
        Step(k) == (old[k].speed * brain.processingSpeed) \div 10
        left == {k \in 1..Len(old) : old[k].t + Step(k) < 10000}
        Rank(k) == Cardinality({j \in left : j <= k})
    IN  /\ Len(brain'.spikes) = Cardinality(left)
        /\ \A k \in left :
             /\ brain'.spikes[Rank(k)].from = old[k].from
             /\ brain'.spikes[Rank(k)].to = old[k].to
             /\ brain'.spikes[Rank(k)].t > old[k].t

\* the run has stopped or has reached the end of the modelled time
BNNHalted == ~bnn.isRunning \/ bnn.currentTime >= MaxTimeFair
BrainHalted == ~brain.isRunning \/ brain.currentTime >= MaxBrainTime

\* C22: every stored action potential and spike has progress in [0,1); an
\* update moves every signal it keeps forward (its progress never decreases)
\* and removes a signal as soon as its progress is >= 1; while the simulation
\* keeps running the updates keep coming, and a store that holds a signal
\* eventually holds none
C22_SignalsComplete ==
  /\ []SignalsInRange
  /\ [][APsAdvance /\ SpikesAdvance]_vars
  /\ ([]<>BNNHalted) \/ ([]<><<APUpdate>>_vars)
  /\ ([]<>(BrainHalted \/ brain.spikes = <<>>)) \/ ([]<><<SpikeUpdate>>_vars)
  /\ (bnn.actionPotentials # <<>>) ~> (BNNHalted \/ bnn.actionPotentials = <<>>)
  /\ (brain.spikes # <<>>) ~> (BrainHalted \/ brain.spikes = <<>>)

\* an action potential has been removed at the end of its travel, and a spike
\* likewise, the simulation still running
C22_Witness ==
  \/ /\ page = "bnn"
     /\ bnn.isRunning
     /\ bnn.kicks > 0
     /\ bnn.actionPotentials = <<>>
     /\ \E i \in NeuronIds :
          /\ bnn.neurons[i].lastSpikeTime > 0
          /\ bnn.currentTime - bnn.simulationSpeed - bnn.neurons[i].lastSpikeTime
               \in (APDuration * TimeScale)..(APDuration * TimeScale + bnn.simulationSpeed - 1)
  \/ /\ page = "brain"
     /\ brain.isRunning
     /\ brain.spikes = <<>>
     /\ brainTimers.frames > 0
     /\ ProcessedCount(brain) > 0

\* the synapses the step activates (it writes their lastActivation)
Activated == {k \in 1..Len(bnn.synapses) :
                bnn'.synapses[k].lastActivation # bnn.synapses[k].lastActivation}

\* C23: BNN: a tick activates a synapse only more than 30 time units after
\* the synapse's previous activation, and a synapse that has been activated,
\* at time t, comes out of a tick active only if the tick's time is less than
\* 20 units after t
C23_CooldownAndDecay ==
  [][APUpdate =>
       \A k \in 1..Len(bnn.synapses) :
         /\ k \in Activated =>
              /\ bnn'.synapses[k].lastActivation = bnn.currentTime
              /\ bnn.currentTime - bnn.synapses[k].lastActivation > SynCooldown * TimeScale
         /\ (bnn'.synapses[k].isActive /\ bnn'.synapses[k].lastActivation > 0) =>
              bnn.currentTime - bnn'.synapses[k].lastActivation < SynActive * TimeScale]_vars

\* the tick after the one that activated a synapse has left it active and has
\* not activated it again, an action potential of its neuron still beyond 0.8
C23_Witness ==
  \E k \in 1..Len(bnn.synapses) :
    /\ bnn.synapses[k].lastActivation > 0
    /\ bnn.synapses[k].isActive
    /\ bnn.currentTime - bnn.synapses[k].lastActivation = 2 * bnn.simulationSpeed
    /\ \E j \in 1..Len(bnn.actionPotentials) :
         /\ bnn.actionPotentials[j].neuronId = bnn.synapses[k].preNeuronId
         /\ bnn.actionPotentials[j].position > 800

\* the state an algorithm owns
OwnState(m, alg) ==
  IF alg = "linear" THEN <<m.linearRegression>>
  ELSE IF alg = "backprop" THEN <<m.backpropSteps, m.currentBackpropStep>>
  ELSE IF alg = "forest" THEN <<m.decisionTree>>
  ELSE <<m.cnnLayers>>

\* what no algorithm owns, the iteration counter and the running flag apart
MLSettings(m) ==
  <<m.selectedAlgorithm, m.learningRate, m.maxIterations, m.dataPoints, m.drawingData,
    m.isDrawing, m.seedValue>>

\* C24: ML algorithms: a tick leaves the sample points, the settings and the
\* state of the three algorithms that are not selected unchanged (it changes
\* the selected algorithm's state and the iteration counter, and the stop
\* effect that follows it may clear isRunning), and no step changes the
\* selected algorithm while the simulation is running
C24_TickFrame ==
  [][/\ MLTicks =>
          /\ ml'.dataPoints = ml.dataPoints
          /\ MLSettings(ml') = MLSettings(ml)
          /\ \A alg \in Algorithms \ {ml.selectedAlgorithm} :
               OwnState(ml', alg) = OwnState(ml, alg)
     /\ ml.isRunning => ml'.selectedAlgorithm = ml.selectedAlgorithm]_vars

\* a tick has stepped an algorithm other than the first one, over generated
\* sample points
C24_Witness ==
  /\ page = "ml"
  /\ ml.isRunning
  /\ ml.selectedAlgorithm = "forest"
  /\ ml.iterations > 0
  /\ ml.dataPoints # <<>>
  /\ ml.decisionTree # NoTree

\* the background of a drawing: the cells floodFill passes
Background(grid) == {c \in Cells : Cell(grid, c) <= 100}

Border == {c \in Cells : c[1] \in {0, GridSize - 1} \/ c[2] \in {0, GridSize - 1}}

\* the background cells 4-connected to the border
Outside(grid) ==
  LET edge == Background(grid) \cap Border
  IN  Flood(grid, [frontier |-> edge, visited |-> edge])

\* the 4-connected background regions that do not reach the border
EnclosedRegions(grid) ==
  {Flood(grid, [frontier |-> {c}, visited |-> {c}]) :
     c \in Background(grid) \ Outside(grid)}

\* C25: Digit classifier: for a drawing recognizeDigit analyses (total
\* intensity at least 5), countLoops is the number of 4-connected background
\* regions that are not connected to the grid border
C25_LoopsAreEnclosed ==
  GridSum(ml.drawingData) >= 5000 =>
    countLoops(ml.drawingData) = Cardinality(EnclosedRegions(ml.drawingData))

\* the positions in the node list of the nodes of a layer
NodesOfLayer(a, L) == {k \in 1..Len(a.nodes) : a.nodes[k].layer = L}

\* what a tick must leave alone in a node and in a connection
NodeFrame(n) == <<n.id, n.layer, n.position, n.bias, n.input>>
Endpoints(c) == <<c.from, c.to>>

\* the node list and the connection list match the architecture
ANNStructure(a) ==
  LET architecture == getNetworkArchitecture(a)
      layers == 0..(Len(architecture) - 1)
      ids == {a.nodes[k].id : k \in 1..Len(a.nodes)}
  IN  /\ \A k \in 1..Len(a.nodes) : a.nodes[k].layer \in layers
      /\ \A L \in layers :
           /\ Cardinality(NodesOfLayer(a, L)) = architecture[L + 1]
           /\ {a.nodes[k].id : k \in NodesOfLayer(a, L)}
                = {<<L, i>> : i \in 0..(architecture[L + 1] - 1)}
      /\ \A k \in 1..Len(a.connections) :
           /\ a.connections[k].from \in ids
           /\ a.connections[k].to \in ids
           /\ a.connections[k].to[1] = a.connections[k].from[1] + 1
      /\ \A n, m \in ids :
           m[1] = n[1] + 1 =>
             Cardinality({k \in 1..Len(a.connections) :
                            Endpoints(a.connections[k]) = <<n, m>>}) = 1

\* C26: ANN: in every state the node list holds exactly architecture[L] nodes
\* for each layer L and the connection list exactly one connection for every
\* pair of a node and a node of the next layer, every endpoint being an
\* existing node; and a training tick changes no node's identity, bias or
\* input value and no connection's endpoints
C26_Structure ==
  /\ []ANNStructure(ann)
  /\ [][ANNTicks =>
          /\ Len(ann'.nodes) = Len(ann.nodes)
          /\ \A k \in 1..Len(ann.nodes) : NodeFrame(ann'.nodes[k]) = NodeFrame(ann.nodes[k])
          /\ Len(ann'.connections) = Len(ann.connections)
          /\ \A k \in 1..Len(ann.connections) :
               Endpoints(ann'.connections[k]) = Endpoints(ann.connections[k])]_vars

\* a network rebuilt for another architecture has been trained for an epoch:
\* its weights have moved and its activations are set
C26_Witness ==
  /\ page = "ann"
  /\ ann.inputs > 0
  /\ getNetworkArchitecture(ann) # getNetworkArchitecture(ANNInit(250))
  /\ ann.currentEpoch > 0
  /\ \E k \in 1..Len(ann.connections) : ann.connections[k].active
  /\ \E k \in 1..Len(ann.nodes) : ann.nodes[k].layer > 0 /\ ann.nodes[k].activation # 0

\* C27: ANN: in every state metrics holds one record per completed epoch, in
\* order: its length is currentEpoch and its last record, if any, carries
\* epoch = currentEpoch (both are cleared together)
C27_MetricsPerEpoch ==
  /\ Len(ann.metrics) = ann.currentEpoch
  /\ ann.metrics # <<>> => ann.metrics[Len(ann.metrics)].epoch = ann.currentEpoch

\* epochs have completed on a network that was rebuilt or reset after earlier
\* epochs
C27_Witness ==
  /\ page = "ann"
  /\ ann.inputs > 0
  /\ ann.currentEpoch >= 2
  /\ Len(ann.metrics) >= 2
  /\ ann.metrics[1].epoch = 1

\* C28: ML: in every state currentBackpropStep is iterations mod 8 while the
\* backprop algorithm is selected and 0 while another algorithm is selected
C28_StepInPhase ==
  ml.currentBackpropStep =
    IF ml.selectedAlgorithm = "backprop" THEN ml.iterations % BackpropPhases ELSE 0

\* the backprop run has gone round the eight steps once and is at step 1 again
C28_Witness ==
  /\ page = "ml"
  /\ ml.selectedAlgorithm = "backprop"
  /\ ml.iterations = BackpropPhases + 1
  /\ ml.currentBackpropStep = 1
  /\ Len(ml.backpropSteps) = BackpropPhases

\* the synapses leaving a neuron
SynapsesOf(b, i) == {k \in 1..Len(b.synapses) : b.synapses[k].preNeuronId = i}

\* C29: BNN: when a tick removes an action potential, every synapse of the
\* neuron that fired it has been activated since the action potential went
\* beyond 0.8 (so no cooldown suppressed the activation), and a tick that
\* writes a synapse's lastActivation sets the synapse active
C29_ActivatedBeforeRemoval ==
  [][APUpdate =>
       /\ \A j \in 1..Len(bnn.actionPotentials) :
            LET ap == bnn.actionPotentials[j]
            IN  bnn.currentTime - ap.startTime >= APDuration * TimeScale =>
                  \A k \in SynapsesOf(bnn, ap.neuronId) :
                    bnn.synapses[k].lastActivation - ap.startTime > 800
       /\ \A k \in Activated : bnn'.synapses[k].isActive]_vars

\* a neuron has fired again while its previous action potential, beyond 0.8
\* and still stored, has activated the neuron's synapses
C29_Witness ==
  \E i \in NeuronIds :
    \E j1, j2 \in 1..Len(bnn.actionPotentials) :
      LET first == bnn.actionPotentials[j1]
          second == bnn.actionPotentials[j2]
      IN  /\ first.neuronId = i
          /\ second.neuronId = i
          /\ first.startTime < second.startTime
          /\ first.position > 800
          /\ SynapsesOf(bnn, i) # {}
          /\ \A k \in SynapsesOf(bnn, i) :
               /\ bnn.synapses[k].isActive
               /\ bnn.synapses[k].lastActivation - first.startTime > 800

\* the stimuli of a list that the step removes
Removed(list, after) ==
  {k \in 1..Len(list) : \A j \in 1..Len(after) : after[j].startTime # list[k].startTime}

\* the step is a tick of the main clock, after which the cleanup effect runs
BrainTicks == page = "brain" /\ brain'.currentTime > brain.currentTime

\* C30: Brain functions: a stimulus that the age-based cleanup removes (the
\* cleanup that follows a tick) was marked processed, or executed, before
\* that tick
C30_ProcessedBeforeCleanup ==
  [][BrainTicks =>
       /\ \A k \in Removed(brain.visualStimuli, brain'.visualStimuli) :
            brain.visualStimuli[k].processed
       /\ \A k \in Removed(brain.audioStimuli, brain'.audioStimuli) :
            brain.audioStimuli[k].processed
       /\ \A k \in Removed(brain.motorCommands, brain'.motorCommands) :
            brain.motorCommands[k].executed]_vars

\* the cleanup has removed a stimulus that had been processed: the run is past
\* MaxAge, a stimulus has been counted and the lists are empty
C30_Witness ==
  /\ page = "brain"
  /\ brain.isRunning
  /\ brain.currentTime >= MaxAge
  /\ ProcessedCount(brain) > 0
  /\ brain.visualStimuli = <<>>
  /\ brain.audioStimuli = <<>>
  /\ brain.motorCommands = <<>>

====
